---- MODULE Spec2Model ----
(***************************************************************************)
(* A model of src/project/src/middleware/auth.js: the bearer-credential    *)
(* gate (authMiddleware) and the agent route handlers behind it.           *)
(*                                                                         *)
(* Text is a sequence of one-character strings, so that startsWith,        *)
(* substring, trim, toLowerCase, includes and split are computed the way   *)
(* the JavaScript computes them.  An optional value (undefined / null /    *)
(* an unset environment variable) is Nil == <<>> and a present value v is  *)
(* Some(v) == <<v>>.                                                       *)
(*                                                                         *)
(* One request is in flight at a time.  Every `await` of a handler is a    *)
(* suspension point: an action runs the handler from one suspension point  *)
(* to the next, the collaborator's answer being the action's input.  A     *)
(* collaborator failure is an Error object carrying a message text.  The   *)
(* header is a local of authMiddleware: it is kept until the handler       *)
(* starts, which never reads it.                                           *)
(***************************************************************************)
EXTENDS Integers, Sequences, FiniteSets, TLC

VARIABLES
    nodeEnv,      \* process.env.NODE_ENV
    mcpToken,     \* process.env.MCP_SERVER_TOKEN (Nil when unset)
    pc,           \* position of the request in flight
    route,        \* the route the request is for
    authHeader,   \* req.headers.authorization as authMiddleware reads it
    user,         \* req.user
    nextCalls,    \* number of times authMiddleware called next()
    responses,    \* number of responses sent for the request
    res,          \* the response sent (status 0: none yet)
    calls,        \* library and collaborator calls of the request, in order
    body,         \* req.body
    diffContent,  \* code-review: diffContent
    analysis,     \* code-review: analysis
    hasHighRisk,  \* code-review: hasHighRisk
    result,       \* code-review: result (the decision record)
    work,         \* locals of the other handlers
    inflight      \* several requests at once: the locals of each invocation

vars == <<nodeEnv, mcpToken, pc, route, authHeader, user, nextCalls, responses,
          res, calls, body, diffContent, analysis, hasHighRisk, result, work,
          inflight>>

-----------------------------------------------------------------------------
(* Bounds *)

MaxTokenLen == 2    \* longest bearer credential, in characters
MaxFrags == 2       \* most fragments an LLM analysis text is made of
MaxFiles == 2       \* most changed files fetchChangedFiles returns
MaxNameParts == 3   \* most parts a file name is made of
NumRequests == 2    \* requests in flight together

-----------------------------------------------------------------------------
(* Optional values and text *)

Nil == <<>>
Some(v) == <<v>>
Val(o) == o[1]

RECURSIVE Concat(_)
Concat(ss) == IF ss = <<>> THEN <<>> ELSE Head(ss) \o Concat(Tail(ss))

SeqsUpTo(S, n) == UNION {[1..k -> S] : k \in 0..n}

IsSpace(c) == c \in {" ", "\n", "\t"}

Upper == <<"A","B","C","D","E","F","G","H","I","J","K","L","M",
           "N","O","P","Q","R","S","T","U","V","W","X","Y","Z">>
Lower == <<"a","b","c","d","e","f","g","h","i","j","k","l","m",
           "n","o","p","q","r","s","t","u","v","w","x","y","z">>

LowerChar(c) ==
    IF \E i \in 1..26 : Upper[i] = c
    THEN Lower[CHOOSE i \in 1..26 : Upper[i] = c]
    ELSE c

toLowerCase(s) == [i \in 1..Len(s) |-> LowerChar(s[i])]

startsWith(s, p) == Len(s) >= Len(p) /\ SubSeq(s, 1, Len(p)) = p

endsWith(s, p) == Len(s) >= Len(p) /\ SubSeq(s, Len(s) - Len(p) + 1, Len(s)) = p

substring(s, n) == SubSeq(s, n + 1, Len(s))

includes(s, sub) ==
    \E i \in 0..(Len(s) - Len(sub)) : SubSeq(s, i + 1, i + Len(sub)) = sub

RECURSIVE trimStart(_)
trimStart(s) ==
    IF s # <<>> /\ IsSpace(Head(s)) THEN trimStart(Tail(s)) ELSE s

RECURSIVE trimEnd(_)
trimEnd(s) ==
    IF s # <<>> /\ IsSpace(s[Len(s)]) THEN trimEnd(SubSeq(s, 1, Len(s) - 1)) ELSE s

\* trim forgotten: the text is taken as it is
trimNone(s) == s

trim(s) == trimEnd(trimStart(s))

\* s.split('\n'): the pieces between line feeds (one piece when there is none)
RECURSIVE splitLines(_)
splitLines(s) ==
    IF \E i \in 1..Len(s) : s[i] = "\n"
    THEN LET i == CHOOSE k \in 1..Len(s) :
                      s[k] = "\n" /\ \A m \in 1..(k - 1) : s[m] # "\n"
         IN  <<SubSeq(s, 1, i - 1)>> \o splitLines(SubSeq(s, i + 1, Len(s)))
    ELSE <<s>>

RECURSIVE filterNonBlank(_)
filterNonBlank(ls) ==
    IF ls = <<>> THEN <<>>
    ELSE IF Len(trim(Head(ls))) > 0
         THEN <<Head(ls)>> \o filterNonBlank(Tail(ls))
         ELSE filterNonBlank(Tail(ls))

slice(ls, from, to) == SubSeq(ls, from + 1, IF to < Len(ls) THEN to ELSE Len(ls))

-----------------------------------------------------------------------------
(* authMiddleware *)

BearerPrefix == <<"B","e","a","r","e","r"," ">>

TokenChars == {"s", "j", " "}
Tokens == SeqsUpTo(TokenChars, MaxTokenLen)

\* the header values a request may carry
Headers ==
    {Nil}
    \cup {Some(BearerPrefix \o t) : t \in Tokens}
    \cup {Some(<<"B","e","a","r","e","r">>),
          Some(<<"b","e","a","r","e","r"," ","s">>),
          Some(<<"B","a","s","i","c"," ","s">>)}

SystemUser == [id |-> "system", role |-> "admin"]

\* what jwt.verify may decode from a token that verifies
JwtClaims == {[id |-> "alice", role |-> "user"], [id |-> "system", role |-> "admin"]}

NoRes == [status |-> 0, body |-> [error |-> "none"]]

MissingCredential ==
    [status |-> 401,
     body |-> [error |-> "Access denied. No token provided or invalid format."]]
EmptyCredential ==
    [status |-> 401,
     body |-> [error |-> "Access denied. Empty token provided."]]
InvalidCredential ==
    [status |-> 401, body |-> [error |-> "Invalid token"]]

\* a call: its operation, its outcome ("pending", "ok", "fail") and what it
\* returned or, when it failed, the message of the error it threw
Call(op, outcome, value) == [op |-> op, outcome |-> outcome, value |-> value]

\* the development-mode comparison of line 26
DevBypass(token) == nodeEnv = "development" /\ mcpToken = Some(token)

\* the comparison of line 38, made after jwt.verify has thrown
FallbackMatch(token) == mcpToken = Some(token)

\* authMiddleware with the signature verification tried before the
\* development-mode comparison
AuthOutcomeVerifyFirst(h, v) ==
    IF h = Nil \/ ~startsWith(Val(h), BearerPrefix)
    THEN [next |-> 0, sent |-> 1, user |-> Nil, res |-> MissingCredential, calls |-> <<>>]
    ELSE LET token == substring(Val(h), 7) IN
         IF token = <<>> \/ Len(trim(token)) = 0
         THEN [next |-> 0, sent |-> 1, user |-> Nil, res |-> EmptyCredential, calls |-> <<>>]
         ELSE IF v # Nil
         THEN [next |-> 1, sent |-> 0, user |-> v, res |-> NoRes,
               calls |-> <<Call("jwt.verify", "ok", v)>>]
         ELSE IF FallbackMatch(token)
         THEN [next |-> 1, sent |-> 0, user |-> Some(SystemUser), res |-> NoRes,
               calls |-> <<Call("jwt.verify", "fail", Nil)>>]
         ELSE [next |-> 0, sent |-> 1, user |-> Nil, res |-> InvalidCredential,
               calls |-> <<Call("jwt.verify", "fail", Nil)>>]

\* authMiddleware without the return of line 19: the 401 for an empty
\* credential is sent and the function goes on
AuthOutcomeEmptyFallsThrough(h, v) ==
    IF h = Nil \/ ~startsWith(Val(h), BearerPrefix)
    THEN [next |-> 0, sent |-> 1, user |-> Nil, res |-> MissingCredential, calls |-> <<>>]
    ELSE LET token == substring(Val(h), 7)
             empty == token = <<>> \/ Len(trim(token)) = 0
             sent == IF empty THEN 1 ELSE 0
             first == IF empty THEN EmptyCredential ELSE NoRes
         IN  IF DevBypass(token)
             THEN [next |-> 1, sent |-> sent, user |-> Some(SystemUser), res |-> first,
                   calls |-> <<>>]
             ELSE IF v # Nil
             THEN [next |-> 1, sent |-> sent, user |-> v, res |-> first,
                   calls |-> <<Call("jwt.verify", "ok", v)>>]
             ELSE IF FallbackMatch(token)
             THEN [next |-> 1, sent |-> sent, user |-> Some(SystemUser), res |-> first,
                   calls |-> <<Call("jwt.verify", "fail", Nil)>>]
             ELSE [next |-> 0, sent |-> sent + 1, user |-> Nil, res |-> InvalidCredential,
                   calls |-> <<Call("jwt.verify", "fail", Nil)>>]

\* The outcome of authMiddleware for header h when jwt.verify, if it is reached,
\* answers v (Nil: it throws; Some(claims): it returns the claims): how often
\* next() was called, how many responses were sent, req.user, the response.
AuthOutcome(h, v) ==
    IF h = Nil \/ ~startsWith(Val(h), BearerPrefix)
    THEN [next |-> 0, sent |-> 1, user |-> Nil, res |-> MissingCredential, calls |-> <<>>]
    ELSE LET token == substring(Val(h), 7) IN
         IF token = <<>> \/ Len(trim(token)) = 0
         THEN [next |-> 0, sent |-> 1, user |-> Nil, res |-> EmptyCredential, calls |-> <<>>]
         ELSE IF DevBypass(token)
         THEN [next |-> 1, sent |-> 0, user |-> Some(SystemUser), res |-> NoRes, calls |-> <<>>]
         ELSE IF v # Nil
         THEN [next |-> 1, sent |-> 0, user |-> v, res |-> NoRes,
               calls |-> <<Call("jwt.verify", "ok", v)>>]
         ELSE IF FallbackMatch(token)
         THEN [next |-> 1, sent |-> 0, user |-> Some(SystemUser), res |-> NoRes,
               calls |-> <<Call("jwt.verify", "fail", Nil)>>]
         ELSE [next |-> 0, sent |-> 1, user |-> Nil, res |-> InvalidCredential,
               calls |-> <<Call("jwt.verify", "fail", Nil)>>]

Routes == {"code-review", "test-writer", "build-predictor", "docker-handler",
           "deploy", "monitor", "deploy/conversational", "security/vulnerability-scan"}

NoBody == [repository |-> FALSE, pr_number |-> FALSE]
NoWork == [n |-> 0]

-----------------------------------------------------------------------------
(* Collaborator answers *)

Ok(v) == [ok |-> TRUE, value |-> v, message |-> <<>>]
Fail(m) == [ok |-> FALSE, value |-> Nil, message |-> m]

\* messages of the Error objects a failing collaborator call rejects with
ErrMsgs ==
    {<<"4","0","4"," ","N","o","t"," ","F","o","u","n","d">>,
     <<"4","0","1"," ","U","n","a","u","t","h","o","r","i","z","e","d">>,
     <<"4","0","3"," ","F","o","r","b","i","d","d","e","n">>,
     <<"4","0","1"," ","t","h","e","n"," ","4","0","4">>,
     <<"E","T","I","M","E","D","O","U","T">>}

Failures == {Fail(m) : m \in ErrMsgs}

\* message of the TypeError thrown when a property of undefined is read
TypeErrorMsg == <<"u","n","d","e","f","i","n","e","d">>

\* a message field of a response: a literal of the source, or error.message
Lit(s) == [kind |-> "literal", lit |-> s, text |-> <<>>]
ErrText(t) == [kind |-> "error.message", lit |-> "", text |-> t]

\* the call in flight has returned or failed
Settle(cs, a) ==
    [cs EXCEPT ![Len(cs)] = [@ EXCEPT !.outcome = IF a.ok THEN "ok" ELSE "fail",
                                      !.value = IF a.ok THEN a.value
                                                ELSE Some(a.message)]]

\* a call whose argument the model keeps
CallFor(op, arg) == [op |-> op, outcome |-> "pending", value |-> Nil, arg |-> arg]

-----------------------------------------------------------------------------
(* Code Review Agent *)

UnsafeDeserialization ==
    <<"u","n","s","a","f","e"," ","d","e","s","e","r",
      "i","a","l","i","z","a","t","i","o","n">>

\* what fetchPRDiff may resolve to
DiffValues ==
    {Nil, Some(<<>>), Some(<<" ","\n">>),
     Some(UnsafeDeserialization), Some(<<"x"," ","="," ","1">>)}

riskKeywords ==
    << <<"s","e","c","u","r","i","t","y">>,
       <<"v","u","l","n","e","r","a","b","i","l","i","t","y">>,
       <<"c","r","i","t","i","c","a","l">>,
       <<"d","a","n","g","e","r","o","u","s">>,
       <<"u","n","s","a","f","e">> >>

\* the fragments the analysis texts are made of
Frags ==
    {<<"S","E","C","U","R","I","T","Y">>,
     <<"V","u","l","n","e","r","a","b","i","l","i","t","y">>,
     <<"C","r","i","t","i","c","a","l">>,
     <<"D","a","n","g","e","r","o","u","s">>,
     <<"u","n">>,
     <<"s","a","f","e">>,
     <<" ","o","k"," ">>}

AnalysisTexts == {Concat(fs) : fs \in SeqsUpTo(Frags, MaxFrags)}

\* what analyzeCode may resolve to (content undefined: Nil)
AnalysisValues ==
    {[content |-> c, model |-> "model-a", provider |-> "provider-a"] :
        c \in {Nil} \cup {Some(t) : t \in AnalysisTexts}}

\* what generateResponse may resolve to (content undefined: Nil)
SuggestionValues ==
    {[content |-> c] :
        c \in {Nil, Some(<<>>),
               Some(<<"1","."," ","x","\n","\n","2","."," ","y">>),
               Some(<<"a","\n","b","\n"," ","\n","c","\n","d","\n","e","\n","f">>)}}

GenericSuggestion ==
    <<"R","e","v","i","e","w"," ","t","h","e"," ","a",
      "n","a","l","y","s","i","s"," ","f","o","r"," ",
      "d","e","t","a","i","l","e","d"," ","r","e","c",
      "o","m","m","e","n","d","a","t","i","o","n","s">>

\* the scan without the lower-casing
HasHighRiskCaseSensitive(content) ==
    \E i \in 1..Len(riskKeywords) : includes(content, riskKeywords[i])

\* the scan with the last keyword ('unsafe') left out
HasHighRiskNoUnsafe(content) ==
    \E i \in 1..(Len(riskKeywords) - 1) : includes(toLowerCase(content), riskKeywords[i])

\* lines 97-100
HasHighRisk(content) ==
    \E i \in 1..Len(riskKeywords) : includes(toLowerCase(content), riskKeywords[i])

\* lines 109-114: content undefined makes split throw, which the catch absorbs
ExtractSuggestions(content) ==
    IF content = Nil
    THEN <<GenericSuggestion>>
    ELSE slice(filterNonBlank(splitLines(Val(content))), 0, 5)

\* lines 116-124
ReviewResult(a, high, suggestions) ==
    [status |-> IF high THEN "changes_requested" ELSE "approved",
     analysis |-> Val(a.content),
     risk_level |-> IF high THEN "high" ELSE "low",
     suggestions |-> suggestions,
     model_used |-> a.model,
     provider |-> a.provider,
     timestamp |-> "now"]

Includes404(m) == includes(m, <<"4","0","4">>)
Includes401or403(m) == includes(m, <<"4","0","1">>) \/ includes(m, <<"4","0","3">>)

\* the catch without the status mapping: every failure is a 500
CodeReviewCatchAlways500(m) ==
    [status |-> 500,
     body |-> [error |-> "Code review failed",
               message |-> ErrText(m),
               details |-> IF nodeEnv = "development" THEN Some("error.stack") ELSE Nil]]

\* lines 130-150: the catch of the code-review handler
CodeReviewCatch(m) ==
    LET statusCode == IF Includes404(m) THEN 404
                      ELSE IF Includes401or403(m) THEN 401
                      ELSE 500
        errorMessage ==
            IF Includes404(m)
            THEN Lit("Repository or PR not found. Please check the repository name and PR number.")
            ELSE IF Includes401or403(m)
            THEN Lit("Authentication failed. Please check your GitHub token permissions.")
            ELSE ErrText(m)
    IN  [status |-> statusCode,
         body |-> [error |-> "Code review failed",
                   message |-> errorMessage,
                   details |-> IF nodeEnv = "development" THEN Some("error.stack") ELSE Nil]]

MissingRepository ==
    [status |-> 400,
     body |-> [error |-> "Missing required parameter: repository",
               required_parameters |-> <<"repository", "pr_number">>]]
MissingPrNumber ==
    [status |-> 400,
     body |-> [error |-> "Missing required parameter: pr_number",
               required_parameters |-> <<"repository", "pr_number">>]]
NoDiffContent ==
    [status |-> 400,
     body |-> [error |-> "No diff content available for analysis",
               message |-> Lit("The PR may not have any changes or the repository may not be accessible")]]

\* req.body of code-review and test-writer: is the field present (truthy)?
Bodies == [repository : BOOLEAN, pr_number : BOOLEAN]

\* the validation with the two checks in the other order
CodeReviewValidatePrFirst(b) ==
    IF ~b.pr_number THEN Some(MissingPrNumber)
    ELSE IF ~b.repository THEN Some(MissingRepository)
    ELSE Nil

\* lines 67-79: Nil when the body passes, else Some of the 400 response
CodeReviewValidate(b) ==
    IF ~b.repository THEN Some(MissingRepository)
    ELSE IF ~b.pr_number THEN Some(MissingPrNumber)
    ELSE Nil

\* the check without the trim: a whitespace-only diff passes
DiffMissingNoTrim(d) == d = Nil \/ Val(d) = <<>>

\* line 86: !diffContent || diffContent.trim().length === 0
DiffMissing(d) == d = Nil \/ Val(d) = <<>> \/ Len(trim(Val(d))) = 0

\* a response is sent and the handler ends
Respond(r) ==
    /\ res' = r
    /\ responses' = responses + 1
    /\ pc' = "done"

\* lines 64-84: validation, then the diff is requested
CodeReviewBegin ==
    /\ pc = "handler"
    /\ route = "code-review"
    /\ authHeader' = Nil
    /\ \E b \in Bodies :
        /\ body' = b
        /\ IF CodeReviewValidate(b) # Nil
           THEN Respond(Val(CodeReviewValidate(b))) /\ calls' = calls
           ELSE /\ calls' = Append(calls, Call("fetchPRDiff", "pending", Nil))
                /\ pc' = "cr_diff"
                /\ UNCHANGED <<res, responses>>
    /\ UNCHANGED <<inflight, nodeEnv, mcpToken, route, user, nextCalls, diffContent,
                   analysis, hasHighRisk, result, work>>

\* lines 84-94: the diff arrives (or the fetch fails); the analysis is requested
CodeReviewDiff ==
    /\ pc = "cr_diff"
    /\ \E a \in {Ok(d) : d \in DiffValues} \cup Failures :
        IF ~a.ok
        THEN /\ Respond(CodeReviewCatch(a.message))
             /\ calls' = Settle(calls, a)
             /\ UNCHANGED diffContent
        ELSE /\ diffContent' = a.value
             /\ IF DiffMissing(a.value)
                THEN /\ Respond(NoDiffContent)
                     /\ calls' = Settle(calls, a)
                ELSE /\ calls' = Append(Settle(calls, a), Call("analyzeCode", "pending", Nil))
                     /\ pc' = "cr_analysis"
                     /\ UNCHANGED <<res, responses>>
    /\ UNCHANGED <<inflight, nodeEnv, mcpToken, route, authHeader, user, nextCalls, body,
                   analysis, hasHighRisk, result, work>>

\* lines 94-107: the analysis arrives; risk is classified; suggestions are requested
CodeReviewAnalysis ==
    /\ pc = "cr_analysis"
    /\ \E a \in {Ok(Some(v)) : v \in AnalysisValues} \cup Failures :
        IF ~a.ok
        THEN /\ Respond(CodeReviewCatch(a.message))
             /\ calls' = Settle(calls, a)
             /\ UNCHANGED <<analysis, hasHighRisk>>
        ELSE /\ analysis' = a.value
             /\ IF Val(a.value).content = Nil
                THEN \* analysis.content.toLowerCase() throws a TypeError
                     /\ Respond(CodeReviewCatch(TypeErrorMsg))
                     /\ calls' = Settle(calls, a)
                     /\ UNCHANGED hasHighRisk
                ELSE /\ hasHighRisk' = HasHighRisk(Val(Val(a.value).content))
                     /\ calls' = Append(Settle(calls, a),
                                        Call("generateResponse", "pending", Nil))
                     /\ pc' = "cr_suggest"
                     /\ UNCHANGED <<res, responses>>
    /\ UNCHANGED <<inflight, nodeEnv, mcpToken, route, authHeader, user, nextCalls, body,
                   diffContent, result, work>>

\* lines 104-127: the suggestions arrive; the record is built; the comment is posted
CodeReviewSuggest ==
    /\ pc = "cr_suggest"
    /\ \E a \in {Ok(Some(v)) : v \in SuggestionValues} \cup Failures :
        IF ~a.ok
        THEN \* the await of line 104 is outside the try of line 110
             /\ Respond(CodeReviewCatch(a.message))
             /\ calls' = Settle(calls, a)
             /\ UNCHANGED result
        ELSE /\ result' = Some(ReviewResult(Val(analysis), hasHighRisk,
                                            ExtractSuggestions(Val(a.value).content)))
             /\ calls' = Append(Settle(calls, a), Call("postReviewComment", "pending", Nil))
             /\ pc' = "cr_post"
             /\ UNCHANGED <<res, responses>>
    /\ UNCHANGED <<inflight, nodeEnv, mcpToken, route, authHeader, user, nextCalls, body,
                   diffContent, analysis, hasHighRisk, work>>

\* the record is returned whether or not the comment was posted
CodeReviewPostSwallowsFailure ==
    /\ pc = "cr_post"
    /\ \E a \in {Ok(Nil)} \cup Failures :
        /\ Respond([status |-> 200, body |-> Val(result)])
        /\ calls' = Settle(calls, a)
    /\ UNCHANGED <<inflight, nodeEnv, mcpToken, route, authHeader, user, nextCalls, body,
                   diffContent, analysis, hasHighRisk, result, work>>

\* lines 127-129: the comment is posted (or not); the record is returned
CodeReviewPost ==
    /\ pc = "cr_post"
    /\ \E a \in {Ok(Nil)} \cup Failures :
        IF ~a.ok
        THEN /\ Respond(CodeReviewCatch(a.message))
             /\ calls' = Settle(calls, a)
        ELSE /\ Respond([status |-> 200, body |-> Val(result)])
             /\ calls' = Settle(calls, a)
    /\ UNCHANGED <<inflight, nodeEnv, mcpToken, route, authHeader, user, nextCalls, body,
                   diffContent, analysis, hasHighRisk, result, work>>

-----------------------------------------------------------------------------
(* Helper functions (lines 481-515) *)

\* s.split(sep).pop() for a one-character sep: what follows the last sep
RECURSIVE splitPop(_, _)
splitPop(s, sep) ==
    IF \E i \in 1..Len(s) : s[i] = sep
    THEN LET i == CHOOSE k \in 1..Len(s) : s[k] = sep /\ \A m \in 1..(k - 1) : s[m] # sep
         IN  splitPop(SubSeq(s, i + 1, Len(s)), sep)
    ELSE s

\* s.replace(pat, rep) with a string pattern: the first occurrence only
replaceFirst(s, pat, rep) ==
    IF includes(s, pat)
    THEN LET i == CHOOSE k \in 0..(Len(s) - Len(pat)) :
                      /\ SubSeq(s, k + 1, k + Len(pat)) = pat
                      /\ \A m \in 0..(k - 1) : SubSeq(s, m + 1, m + Len(pat)) # pat
         IN  SubSeq(s, 1, i) \o rep \o SubSeq(s, i + Len(pat) + 1, Len(s))
    ELSE s

ExtJs == <<"j","s">>
ExtTs == <<"t","s">>
ExtPy == <<"p","y">>
ExtJava == <<"j","a","v","a">>
ExtGo == <<"g","o">>
ExtRb == <<"r","b">>
ExtPhp == <<"p","h","p">>

\* names every object literal answers to besides its own keys
InheritedMembers ==
    {<<"c","o","n","s","t","r","u","c","t","o","r">>,
     <<"t","o","S","t","r","i","n","g">>}

\* lines 482-499; frameworks[ext] finds the members an object literal
\* inherits, which are truthy and are no framework name
detectTestFrameworkByExtensionOnly(content, filename) ==
    LET ext == splitPop(filename, ".") IN
    IF ext \in InheritedMembers THEN "inherited member"
    ELSE IF ext = ExtJs THEN "jest"
    ELSE IF ext = ExtTs THEN "jest"
    ELSE IF ext = ExtPy THEN "pytest"
    ELSE IF ext = ExtJava THEN "junit"
    ELSE IF ext = ExtGo THEN "testing"
    ELSE IF ext = ExtRb THEN "rspec"
    ELSE IF ext = ExtPhp THEN "phpunit"
    ELSE "generic"

detectTestFramework(content, filename) ==
    IF includes(filename, <<".","t","e","s","t",".">>)
       \/ includes(filename, <<".","s","p","e","c",".">>)
    THEN "existing"
    ELSE LET ext == splitPop(filename, ".") IN
         IF ext \in InheritedMembers THEN "inherited member"
         ELSE IF ext = ExtJs THEN "jest"
         ELSE IF ext = ExtTs THEN "jest"
         ELSE IF ext = ExtPy THEN "pytest"
         ELSE IF ext = ExtJava THEN "junit"
         ELSE IF ext = ExtGo THEN "testing"
         ELSE IF ext = ExtRb THEN "rspec"
         ELSE IF ext = ExtPhp THEN "phpunit"
         ELSE "generic"

\* lines 501-515
generateTestFileName(filename, framework) ==
    LET ext == splitPop(filename, ".")
        baseName == replaceFirst(filename, <<".">> \o ext, <<>>)
    IN  IF framework = "jest" THEN baseName \o <<".","t","e","s","t",".">> \o ext
        ELSE IF framework = "pytest"
        THEN <<"t","e","s","t","_">> \o splitPop(baseName, "/") \o <<".","p","y">>
        ELSE IF framework = "junit"
        THEN baseName \o <<"T","e","s","t",".","j","a","v","a">>
        ELSE IF framework = "testing"
        THEN baseName \o <<"_","t","e","s","t",".","g","o">>
        ELSE IF framework = "rspec"
        THEN baseName \o <<"_","s","p","e","c",".","r","b">>
        ELSE IF framework = "phpunit"
        THEN baseName \o <<"T","e","s","t",".","p","h","p">>
        ELSE baseName \o <<".","t","e","s","t",".">> \o ext

\* line 178: test_framework || detectTestFramework(file.content, file.filename)
ResolveFramework(test_framework, content, filename) ==
    IF test_framework # Nil /\ Val(test_framework) # ""
    THEN Val(test_framework)
    ELSE detectTestFramework(content, filename)

-----------------------------------------------------------------------------
(* Test Writer Agent *)

\* the changed files fetchChangedFiles may return (content undefined: Nil)
FileSet ==
    {[filename |-> <<"a",".","j","s">>, content |-> Some(<<"c">>)],
     [filename |-> <<"b",".","p","y">>, content |-> Nil],
     [filename |-> <<"R","E","A","D","M","E",".","m","d">>, content |-> Some(<<"c">>)],
     [filename |-> <<"d","/","W",".","j","a","v","a">>, content |-> Some(<<"c">>)],
     [filename |-> <<"e",".","t","s">>, content |-> Some(<<>>)]}

FileLists == SeqsUpTo(FileSet, MaxFiles)

\* line 176: file.content && file.filename.match(/\.(js|ts|py|java|go)$/)
EligibleAnyExtension(file) ==
    /\ file.content # Nil
    /\ Val(file.content) # <<>>

Eligible(file) ==
    /\ file.content # Nil
    /\ Val(file.content) # <<>>
    /\ \E e \in {ExtJs, ExtTs, ExtPy, ExtJava, ExtGo} : endsWith(file.filename, <<".">> \o e)

\* the index of the first eligible file at or after position i (0: none)
NextEligible(files, i) ==
    IF \E k \in i..Len(files) : Eligible(files[k])
    THEN CHOOSE k \in i..Len(files) :
             Eligible(files[k]) /\ \A m \in i..(k - 1) : ~Eligible(files[m])
    ELSE 0

MissingParameters(b) ==
    [status |-> 400,
     body |-> [error |-> "Missing required parameters",
               required_parameters |-> <<"repository", "pr_number">>,
               received |-> [repository |-> b.repository, pr_number |-> b.pr_number]]]

\* lines 202-209
TestWriterCatch(m) ==
    [status |-> 500,
     body |-> [error |-> "Test generation failed", message |-> ErrText(m),
               tests_generated |-> 0]]

\* lines 196-201 (the simulated coverage estimate is left out)
TestWriterResult(w) ==
    [status |-> 200,
     body |-> [tests_generated |-> w.totalTestsGenerated,
               test_files |-> [k \in 1..Len(w.generatedTests) |-> w.generatedTests[k].test_file],
               timestamp |-> "now"]]

\* lines 156-170
TestWriterBegin ==
    /\ pc = "handler"
    /\ route = "test-writer"
    /\ authHeader' = Nil
    /\ \E b \in Bodies, tf \in {Nil, Some("pytest"), Some("")} :
        /\ body' = b
        /\ IF ~b.repository \/ ~b.pr_number
           THEN Respond(MissingParameters(b)) /\ calls' = calls /\ work' = work
           ELSE /\ calls' = Append(calls, Call("fetchChangedFiles", "pending", Nil))
                /\ work' = [test_framework |-> tf, files |-> <<>>, i |-> 0,
                            totalTestsGenerated |-> 0, generatedTests |-> <<>>,
                            created |-> 0]
                /\ pc' = "tw_fetch"
                /\ UNCHANGED <<res, responses>>
    /\ UNCHANGED <<inflight, nodeEnv, mcpToken, route, user, nextCalls, diffContent,
                   analysis, hasHighRisk, result>>

\* the generation loop (lines 175-189) has reached position i of the files of w:
\* it suspends on the next eligible file, or it ends and the creation loop
\* (lines 192-194) starts, or, with nothing to create, the response is sent
TestWriterContinue(w, i, cs) ==
    LET k == NextEligible(w.files, i) IN
    IF k # 0
    THEN /\ work' = [w EXCEPT !.i = k]
         /\ calls' = Append(cs, CallFor("generateTests", w.files[k].filename))
         /\ pc' = "tw_gen"
         /\ UNCHANGED <<res, responses>>
    ELSE IF w.generatedTests # <<>>
    THEN /\ work' = w
         /\ calls' = Append(cs, CallFor("createTestFile", w.generatedTests[1].test_file))
         /\ pc' = "tw_create"
         /\ UNCHANGED <<res, responses>>
    ELSE /\ work' = w
         /\ calls' = cs
         /\ Respond(TestWriterResult(w))

\* line 170: the files arrive (or the fetch fails)
TestWriterFetch ==
    /\ pc = "tw_fetch"
    /\ \E a \in {Ok(fl) : fl \in FileLists} \cup Failures :
        IF ~a.ok
        THEN /\ Respond(TestWriterCatch(a.message))
             /\ calls' = Settle(calls, a)
             /\ work' = work
        ELSE TestWriterContinue([work EXCEPT !.files = a.value], 1, Settle(calls, a))
    /\ UNCHANGED <<inflight, nodeEnv, mcpToken, route, authHeader, user, nextCalls, body,
                   diffContent, analysis, hasHighRisk, result>>

\* lines 178-187: the generated tests of one file arrive (or the call fails)
TestWriterGenerate ==
    /\ pc = "tw_gen"
    /\ \E a \in {Ok(Some([content |-> <<"t">>]))} \cup Failures :
        IF ~a.ok
        THEN /\ Respond(TestWriterCatch(a.message))
             /\ calls' = Settle(calls, a)
             /\ work' = work
        ELSE LET file == work.files[work.i]
                 detectedFramework ==
                     ResolveFramework(work.test_framework, Val(file.content),
                                      file.filename)
                 test == [filename |-> file.filename,
                          test_file |-> generateTestFileName(file.filename, detectedFramework),
                          tests |-> Val(a.value).content,
                          framework |-> detectedFramework]
             IN  TestWriterContinue(
                     [work EXCEPT !.generatedTests = Append(@, test),
                                  !.totalTestsGenerated = @ + 1],
                     work.i + 1, Settle(calls, a))
    /\ UNCHANGED <<inflight, nodeEnv, mcpToken, route, authHeader, user, nextCalls, body,
                   diffContent, analysis, hasHighRisk, result>>

\* lines 192-201: one test file is created (or the call fails)
TestWriterCreate ==
    /\ pc = "tw_create"
    /\ \E a \in {Ok(Nil)} \cup Failures :
        IF ~a.ok
        THEN /\ Respond(TestWriterCatch(a.message))
             /\ calls' = Settle(calls, a)
             /\ work' = work
        ELSE LET w == [work EXCEPT !.created = @ + 1] IN
             /\ work' = w
             /\ IF w.created < Len(w.generatedTests)
                THEN /\ calls' = Append(Settle(calls, a),
                                        CallFor("createTestFile",
                                                w.generatedTests[w.created + 1].test_file))
                     /\ UNCHANGED <<pc, res, responses>>
                ELSE /\ calls' = Settle(calls, a)
                     /\ Respond(TestWriterResult(w))
    /\ UNCHANGED <<inflight, nodeEnv, mcpToken, route, authHeader, user, nextCalls, body,
                   diffContent, analysis, hasHighRisk, result>>

-----------------------------------------------------------------------------
(* JavaScript values as JSON.parse builds them and as object literals write  *)
(* them. A number is kept in tenths (0.7 is 7, 75 is 750); a string is its     *)
(* sequence of characters; an object is a function from its keys.              *)

JNull == [t |-> "null"]
JNum(n) == [t |-> "number", tenths |-> n]
JStr(s) == [t |-> "string", chars |-> s]
JArr(items) == [t |-> "array", items |-> items]
JObj(fields) == [t |-> "object", fields |-> fields]

\* the object with the entries <<key, Some(value)>> of es; a Nil entry is absent
ObjOf(es) ==
    JObj([k \in {e[1] : e \in {x \in es : x[2] # Nil}} |->
              Val((CHOOSE e \in es : e[1] = k /\ e[2] # Nil)[2])])

\* the keys the documents of the model use, in the order they are written
KeyOrder == <<"success_probability", "confidence_score", "branch",
              "risk_level", "vulnerabilities">>
KeyText ==
    [success_probability |-> <<"s","u","c","c","e","s","s","_","p","r","o","b","a","b","i","l","i","t","y">>,
     confidence_score |-> <<"c","o","n","f","i","d","e","n","c","e","_","s","c","o","r","e">>,
     branch |-> <<"b","r","a","n","c","h">>,
     risk_level |-> <<"r","i","s","k","_","l","e","v","e","l">>,
     vulnerabilities |-> <<"v","u","l","n","e","r","a","b","i","l","i","t","i","e","s">>]

DigitChar(d) == <<"0","1","2","3","4","5","6","7","8","9">>[d + 1]

RECURSIVE Digits(_)
Digits(n) ==
    IF n < 10 THEN <<DigitChar(n)>> ELSE Digits(n \div 10) \o <<DigitChar(n % 10)>>

NumText(n) ==
    LET m == IF n < 0 THEN 0 - n ELSE n IN
    (IF n < 0 THEN <<"-">> ELSE <<>>) \o Digits(m \div 10)
        \o (IF m % 10 = 0 THEN <<>> ELSE <<".", DigitChar(m % 10)>>)

RECURSIVE JoinComma(_)
JoinComma(parts) ==
    IF parts = <<>> THEN <<>>
    ELSE IF Len(parts) = 1 THEN parts[1]
    ELSE parts[1] \o <<",">> \o JoinComma(Tail(parts))

\* the text of a value, as JSON writes it
RECURSIVE stringify(_)
stringify(v) ==
    CASE v.t = "null" -> <<"n","u","l","l">>
      [] v.t = "number" -> NumText(v.tenths)
      [] v.t = "string" -> <<"\"">> \o v.chars \o <<"\"">>
      [] v.t = "array" ->
            <<"[">> \o JoinComma([i \in 1..Len(v.items) |-> stringify(v.items[i])])
                \o <<"]">>
      [] v.t = "object" ->
            LET ks == SelectSeq(KeyOrder, LAMBDA k : k \in DOMAIN v.fields) IN
            <<"{">> \o JoinComma([i \in 1..Len(ks) |->
                          <<"\"">> \o KeyText[ks[i]] \o <<"\"", ":">>
                              \o stringify(v.fields[ks[i]])])
                \o <<"}">>

\* `value || fallback`: null, 0 and the empty string are falsy
Truthy(v) ==
    /\ v.t # "null"
    /\ ~(v.t = "number" /\ v.tenths = 0)
    /\ ~(v.t = "string" /\ v.chars = <<>>)

\* `value.key` on a value that is not null: Nil is undefined
Get(v, k) ==
    IF v.t = "object" /\ k \in DOMAIN v.fields THEN Some(v.fields[k]) ELSE Nil

\* `{ ...value }`: the own enumerable properties of the value
Spread(v) ==
    CASE v.t = "object" -> v.fields
      [] v.t = "array" ->
            [k \in {DigitChar(i - 1) : i \in 1..Len(v.items)} |->
                v.items[CHOOSE i \in 1..Len(v.items) : DigitChar(i - 1) = k]]
      [] v.t = "string" ->
            [k \in {DigitChar(i - 1) : i \in 1..Len(v.chars)} |->
                JStr(<<v.chars[CHOOSE i \in 1..Len(v.chars) : DigitChar(i - 1) = k]>>)]
      [] OTHER -> [k \in {} |-> JNull]

\* `value.length`: Nil is undefined
lengthOf(v) ==
    CASE v.t = "array" -> Some(Len(v.items))
      [] v.t = "string" -> Some(Len(v.chars))
      [] OTHER -> Nil

StrX == JStr(<<"x">>)
StrV == JStr(<<"v">>)
StrLow == JStr(<<"l","o","w">>)
StrMedium == JStr(<<"m","e","d","i","u","m">>)
StrHigh == JStr(<<"h","i","g","h">>)
StrCritical == JStr(<<"c","r","i","t","i","c","a","l">>)

\* documents that are not objects
PlainDocs == {JNull, JNum(750), StrCritical, JArr(<<StrV>>)}

\* the objects an LLM may answer the build predictor with
PredictionDocs ==
    {ObjOf({<<"success_probability", sp>>, <<"confidence_score", cs>>, <<"branch", br>>}) :
        sp \in {Nil, Some(JNum(900)), Some(JNum(1200)), Some(JNum(0 - 50))},
        cs \in {Nil, Some(JNum(9)), Some(JNum(15))},
        br \in {Nil, Some(StrX)}}

\* the objects an LLM may answer the vulnerability scanner with
ScanDocs ==
    {ObjOf({<<"risk_level", rl>>, <<"vulnerabilities", vs>>}) :
        rl \in {Nil, Some(StrCritical), Some(JStr(<<>>)), Some(JNum(50))},
        vs \in {Nil, Some(JArr(<<StrV, StrV>>)), Some(JArr(<<>>)), Some(JNum(50)),
                Some(JStr(<<"v","v","v">>)), Some(JNull), Some(JObj([k \in {} |-> JNull]))}}

JsonDocs == PlainDocs \cup PredictionDocs \cup ScanDocs

DocEmptyObject == <<"{","}">>
DocPrediction == <<"{","\"","s","u","c","c","e","s","s","_","p","r","o","b","a","b","i","l","i","t","y","\"",":","9","0","}">>
DocOverride == <<"{","\"","b","r","a","n","c","h","\"",":","\"","x","\"","}">>
DocScan == <<"{","\"","r","i","s","k","_","l","e","v","e","l","\"",":","\"","c","r","i","t","i","c","a","l","\"",",","\"","v","u","l","n","e","r","a","b","i","l","i","t","i","e","s","\"",":","[","\"","v","\"",",","\"","v","\"","]","}">>
TextNotJson == <<"n","o","t"," ","j","s","o","n">>
TextCritical == <<"C","r","i","t","i","c","a","l"," ","i","s","s","u","e"," ","f","o","u","n","d">>
TextModerate == <<"m","o","d","e","r","a","t","e"," ","r","i","s","k">>
TextMediumHighRisk == <<"m","e","d","i","u","m",","," ","n","o","t"," ","H","I","G","H"," ","R","I","S","K">>
TextTruncated == <<"{","\"","s","u","c","c","e","s","s","_","p","r","o","b","a","b","i","l","i","t","y","\"",":">>
TextFine == <<"a","l","l"," ","f","i","n","e">>

\* texts that are no JSON document
PlainTexts ==
    {TextNotJson, TextCritical, TextModerate, TextMediumHighRisk, TextTruncated,
     TextFine, <<>>}

\* JSON.parse: Nil when it throws, else Some of the value whose text this is
JSONparse(text) ==
    IF \E v \in JsonDocs : stringify(v) = text
    THEN Some(CHOOSE v \in JsonDocs : stringify(v) = text)
    ELSE Nil

-----------------------------------------------------------------------------
(* Build Predictor Agent *)

\* lines 241-247
DefaultPrediction ==
    [success_probability |-> JNum(750),
     estimated_duration |-> JStr(<<"5","-","8"," ","m","i","n","u","t","e","s">>),
     potential_issues |-> JArr(<<JStr(<<"D","e","p","e","n","d","e","n","c","y"," ","c","o","n","f","l","i","c","t","s"," ","p","o","s","s","i","b","l","e">>)>>),
     resource_requirements |-> JObj([cpu |-> StrMedium, memory |-> StrMedium]),
     confidence_score |-> JNum(7)]

\* what predictBuildOutcome may resolve to
PredictionValues ==
    {[content |-> c, model |-> "model-a", provider |-> "provider-a"] :
        c \in {stringify(v) : v \in PlainDocs \cup PredictionDocs} \cup PlainTexts}

\* lines 259-266
BuildPredictorCatch(m) ==
    [status |-> 500,
     body |-> [error |-> "Build prediction failed", message |-> ErrText(m),
               success_probability |-> 50]]

\* lines 236-248: the parsed prediction, or the default when JSON.parse throws
ParsePredictionKeepsProbability50(content) ==
    LET parsed == JSONparse(content) IN
    IF parsed = Nil
    THEN [DefaultPrediction EXCEPT !.success_probability = JNum(500)]
    ELSE Spread(Val(parsed))

ParsePrediction(content) ==
    LET parsed == JSONparse(content) IN
    IF parsed = Nil THEN DefaultPrediction ELSE Spread(Val(parsed))

\* line 215: the branch the request names
RequestBranch == JStr(<<"m">>)

\* the record with the handler's own keys written before the spread: a key of
\* the parsed prediction replaces the handler's
BuildPredictorResultSpreadLast(p, w) ==
    LET buildPrediction == ParsePrediction(p.content)
        own == [commit_sha |-> "commit_sha", branch |-> RequestBranch,
                model_used |-> p.model, provider |-> p.provider,
                dependency_analysis |-> w.dependencyAnalysis, timestamp |-> "now"]
    IN  [status |-> 200,
         body |-> [k \in DOMAIN buildPrediction \cup DOMAIN own |->
                      IF k \in DOMAIN buildPrediction THEN buildPrediction[k] ELSE own[k]]]

\* lines 236-258: the spread of the parsed prediction, then the handler's own keys
BuildPredictorResult(p, w) ==
    LET buildPrediction == ParsePrediction(p.content)
        own == [commit_sha |-> "commit_sha", branch |-> RequestBranch,
                model_used |-> p.model, provider |-> p.provider,
                dependency_analysis |-> w.dependencyAnalysis, timestamp |-> "now"]
    IN  [status |-> 200,
         body |-> [k \in DOMAIN buildPrediction \cup DOMAIN own |->
                      IF k \in DOMAIN own THEN own[k] ELSE buildPrediction[k]]]

\* line 215: include_dependencies = true, the default of the destructuring
IncludeDependenciesDefaultFalse(inc) == IF inc = Nil THEN FALSE ELSE Val(inc)

IncludeDependencies(inc) == IF inc = Nil THEN TRUE ELSE Val(inc)

\* lines 215-220
BuildPredictorBegin ==
    /\ pc = "handler"
    /\ route = "build-predictor"
    /\ authHeader' = Nil
    /\ \E inc \in {Nil, Some(TRUE), Some(FALSE)} :
        work' = [requested |-> inc,
                 include_dependencies |-> IncludeDependencies(inc),
                 dependencyAnalysis |-> Nil]
    /\ calls' = Append(calls, Call("getRecentChanges", "pending", Nil))
    /\ pc' = "bp_changes"
    /\ UNCHANGED <<inflight, nodeEnv, mcpToken, route, user, nextCalls, responses, res, body,
                   diffContent, analysis, hasHighRisk, result>>

\* lines 220-221
BuildPredictorChanges ==
    /\ pc = "bp_changes"
    /\ \E a \in {Ok(Some("changes"))} \cup Failures :
        IF ~a.ok
        THEN Respond(BuildPredictorCatch(a.message)) /\ calls' = Settle(calls, a)
        ELSE /\ calls' = Append(Settle(calls, a), Call("getBuildHistory", "pending", Nil))
             /\ pc' = "bp_history"
             /\ UNCHANGED <<res, responses>>
    /\ UNCHANGED <<inflight, nodeEnv, mcpToken, route, authHeader, user, nextCalls, body,
                   diffContent, analysis, hasHighRisk, result, work>>

\* lines 221-234
BuildPredictorHistory ==
    /\ pc = "bp_history"
    /\ \E a \in {Ok(Some("history"))} \cup Failures :
        IF ~a.ok
        THEN Respond(BuildPredictorCatch(a.message)) /\ calls' = Settle(calls, a)
        ELSE IF work.include_dependencies
        THEN /\ calls' = Append(Settle(calls, a), Call("analyzeDependencies", "pending", Nil))
             /\ pc' = "bp_deps"
             /\ UNCHANGED <<res, responses>>
        ELSE /\ calls' = Append(Settle(calls, a), Call("predictBuildOutcome", "pending", Nil))
             /\ pc' = "bp_predict"
             /\ UNCHANGED <<res, responses>>
    /\ UNCHANGED <<inflight, nodeEnv, mcpToken, route, authHeader, user, nextCalls, body,
                   diffContent, analysis, hasHighRisk, result, work>>

\* lines 225-234
BuildPredictorDependencies ==
    /\ pc = "bp_deps"
    /\ \E a \in {Ok(Some("dependencies"))} \cup Failures :
        IF ~a.ok
        THEN /\ Respond(BuildPredictorCatch(a.message))
             /\ calls' = Settle(calls, a)
             /\ work' = work
        ELSE /\ work' = [work EXCEPT !.dependencyAnalysis = a.value]
             /\ calls' = Append(Settle(calls, a), Call("predictBuildOutcome", "pending", Nil))
             /\ pc' = "bp_predict"
             /\ UNCHANGED <<res, responses>>
    /\ UNCHANGED <<inflight, nodeEnv, mcpToken, route, authHeader, user, nextCalls, body,
                   diffContent, analysis, hasHighRisk, result>>

\* lines 229-258
BuildPredictorPredict ==
    /\ pc = "bp_predict"
    /\ \E a \in {Ok(Some(v)) : v \in PredictionValues} \cup Failures :
        IF ~a.ok
        THEN Respond(BuildPredictorCatch(a.message)) /\ calls' = Settle(calls, a)
        ELSE Respond(BuildPredictorResult(Val(a.value), work)) /\ calls' = Settle(calls, a)
    /\ UNCHANGED <<inflight, nodeEnv, mcpToken, route, authHeader, user, nextCalls, body,
                   diffContent, analysis, hasHighRisk, result, work>>

-----------------------------------------------------------------------------
(* Docker/K8s Handler Agent *)

\* lines 298-304
DockerCatch(m) ==
    [status |-> 500,
     body |-> [error |-> "Docker/K8s operation failed", message |-> ErrText(m)]]

UnsupportedAction ==
    [status |-> 400,
     body |-> [error |-> "Unsupported action", supported_actions |-> <<"build_and_push">>]]

\* line 276: the tag part of imageTag
ImageTagOf(commit_sha) ==
    IF commit_sha # Nil /\ Val(commit_sha) # <<>>
    THEN SubSeq(Val(commit_sha), 1, IF Len(Val(commit_sha)) < 8 THEN Len(Val(commit_sha)) ELSE 8)
    ELSE <<"l","a","t","e","s","t">>

\* the handler without the else of lines 292-297: an unsupported action
\* gets no response
DockerBeginDropsUnsupported ==
    /\ pc = "handler"
    /\ route = "docker-handler"
    /\ authHeader' = Nil
    /\ \E action \in {"build_and_push", "deploy"},
          sha \in {Nil, Some(<<"0","1","2","3","4","5","6","7","8","9">>)} :
        IF action = "build_and_push"
        THEN /\ work' = [imageTag |-> ImageTagOf(sha), k8sManifests |-> Nil]
             /\ calls' = Append(calls, Call("buildDockerImage", "pending", Nil))
             /\ pc' = "dk_build"
             /\ UNCHANGED <<res, responses>>
        ELSE /\ work' = [imageTag |-> ImageTagOf(sha), k8sManifests |-> Nil]
             /\ calls' = calls
             /\ pc' = "done"
             /\ UNCHANGED <<res, responses>>
    /\ UNCHANGED <<inflight, nodeEnv, mcpToken, route, user, nextCalls, body,
                   diffContent, analysis, hasHighRisk, result>>

\* lines 272-297
DockerBegin ==
    /\ pc = "handler"
    /\ route = "docker-handler"
    /\ authHeader' = Nil
    /\ \E action \in {"build_and_push", "deploy"},
          sha \in {Nil, Some(<<"0","1","2","3","4","5","6","7","8","9">>)} :
        IF action = "build_and_push"
        THEN /\ work' = [imageTag |-> ImageTagOf(sha), k8sManifests |-> Nil]
             /\ calls' = Append(calls, Call("buildDockerImage", "pending", Nil))
             /\ pc' = "dk_build"
             /\ UNCHANGED <<res, responses>>
        ELSE /\ work' = [imageTag |-> ImageTagOf(sha), k8sManifests |-> Nil]
             /\ calls' = calls
             /\ Respond(UnsupportedAction)
    /\ UNCHANGED <<inflight, nodeEnv, mcpToken, route, user, nextCalls, body,
                   diffContent, analysis, hasHighRisk, result>>

\* lines 280-283
DockerBuild ==
    /\ pc = "dk_build"
    /\ \E a \in {Ok(Nil)} \cup Failures :
        IF ~a.ok
        THEN Respond(DockerCatch(a.message)) /\ calls' = Settle(calls, a)
        ELSE /\ calls' = Append(Settle(calls, a), Call("generateK8sManifests", "pending", Nil))
             /\ pc' = "dk_manifests"
             /\ UNCHANGED <<res, responses>>
    /\ UNCHANGED <<inflight, nodeEnv, mcpToken, route, authHeader, user, nextCalls, body,
                   diffContent, analysis, hasHighRisk, result, work>>

\* lines 283-291
DockerManifests ==
    /\ pc = "dk_manifests"
    /\ \E a \in {Ok(Some("manifests"))} \cup Failures :
        IF ~a.ok
        THEN Respond(DockerCatch(a.message)) /\ calls' = Settle(calls, a)
        ELSE /\ Respond([status |-> 200,
                         body |-> [image_tag |-> work.imageTag, image_pushed |-> TRUE,
                                   k8s_manifests |-> a.value, timestamp |-> "now"]])
             /\ calls' = Settle(calls, a)
    /\ UNCHANGED <<inflight, nodeEnv, mcpToken, route, authHeader, user, nextCalls, body,
                   diffContent, analysis, hasHighRisk, result, work>>

-----------------------------------------------------------------------------
(* Deploy Agent, Conversational Deploy Agent *)

\* lines 329-335, 416-422
DeployCatch(m) ==
    [status |-> 500, body |-> [error |-> "Deployment failed", message |-> ErrText(m)]]

\* lines 323, 399: the application part of the deployment URL
AppOf(repository) ==
    IF repository # Nil /\ Val(repository) # <<>>
    THEN LET rest == IF \E i \in 1..Len(Val(repository)) : Val(repository)[i] = "/"
                     THEN splitLines([i \in 1..Len(Val(repository)) |->
                              IF Val(repository)[i] = "/" THEN "\n" ELSE Val(repository)[i]])
                     ELSE <<Val(repository)>>
         IN  IF Len(rest) >= 2 THEN rest[2] ELSE <<"u","n","d","e","f","i","n","e","d">>
    ELSE <<"a","p","p">>

Repositories == {Nil, Some(<<"o","/","r">>), Some(<<"r">>)}

\* lines 310-319
DeployBegin ==
    /\ pc = "handler"
    /\ route = "deploy"
    /\ authHeader' = Nil
    /\ \E r \in Repositories : work' = [repository |-> r]
    /\ calls' = Append(calls, Call("deployToKubernetes", "pending", Nil))
    /\ pc' = "dp_deploy"
    /\ UNCHANGED <<inflight, nodeEnv, mcpToken, route, user, nextCalls, responses, res, body,
                   diffContent, analysis, hasHighRisk, result>>

\* lines 315-328
DeployDone ==
    /\ pc = "dp_deploy"
    /\ \E a \in {Ok(Some("deployment"))} \cup Failures :
        IF ~a.ok
        THEN Respond(DeployCatch(a.message)) /\ calls' = Settle(calls, a)
        ELSE /\ Respond([status |-> 200,
                         body |-> [deployment_id |-> "deploy-now",
                                   app |-> AppOf(work.repository),
                                   status |-> "deployed", timestamp |-> "now"]])
             /\ calls' = Settle(calls, a)
    /\ UNCHANGED <<inflight, nodeEnv, mcpToken, route, authHeader, user, nextCalls, body,
                   diffContent, analysis, hasHighRisk, result, work>>

\* lines 381-415: no collaborator is called
ConversationalDeploy ==
    /\ pc = "handler"
    /\ route = "deploy/conversational"
    /\ authHeader' = Nil
    /\ \E r \in Repositories :
        /\ work' = [repository |-> r]
        /\ Respond([status |-> 200,
                    body |-> [deployment_id |-> "deploy-now", app |-> AppOf(r),
                              status |-> "success", timestamp |-> "now"]])
    /\ UNCHANGED <<inflight, nodeEnv, mcpToken, route, user, nextCalls, calls, body,
                   diffContent, analysis, hasHighRisk, result>>

-----------------------------------------------------------------------------
(* Monitor Agent *)

\* Math.random() is drawn in thousandths, and so are the metrics kept
Thousand == 1000
RandomDraws == {0, 599, 600, 601, 799, 800, 801, 999}

CpuThreshold == 80 * Thousand          \* line 363
ErrorRateThreshold == 3 * Thousand     \* line 366

\* lines 351 and 354: Math.random() * 100, Math.random() * 5
CpuSamples == {r * 100 : r \in RandomDraws}
ErrorRateSamples == {r * 5 : r \in RandomDraws}

\* lines 362-368
AlertsAtThreshold(cpu, err) ==
    (IF cpu >= CpuThreshold THEN <<"High CPU usage detected">> ELSE <<>>)
    \o (IF err >= ErrorRateThreshold THEN <<"Elevated error rate detected">> ELSE <<>>)

Alerts(cpu, err) ==
    (IF cpu > CpuThreshold THEN <<"High CPU usage detected">> ELSE <<>>)
    \o (IF err > ErrorRateThreshold THEN <<"Elevated error rate detected">> ELSE <<>>)

\* lines 341-370: no collaborator is called
Monitor ==
    /\ pc = "handler"
    /\ route = "monitor"
    /\ authHeader' = Nil
    /\ \E cpu \in CpuSamples, err \in ErrorRateSamples :
        Respond([status |-> 200,
                 body |-> [status |-> "healthy",
                           metrics |-> [cpu_usage |-> cpu, error_rate |-> err],
                           alerts |-> Alerts(cpu, err), timestamp |-> "now"]])
    /\ UNCHANGED <<inflight, nodeEnv, mcpToken, route, user, nextCalls, calls, body,
                   diffContent, analysis, hasHighRisk, result, work>>

-----------------------------------------------------------------------------
(* Security Vulnerability Scanner *)

\* lines 471-478
ScanCatch(m) ==
    [status |-> 500,
     body |-> [error |-> "Vulnerability scan failed", message |-> ErrText(m),
               risk_level |-> "unknown"]]

\* what analyzeVulnerabilities may resolve to
ScanValues ==
    {[content |-> c, model |-> "model-a", provider |-> "provider-a"] :
        c \in {stringify(v) : v \in PlainDocs \cup ScanDocs} \cup PlainTexts}

\* lines 450-457: the risk level read off the text
RiskFromTextMediumFirst(content) ==
    LET lc == toLowerCase(content) IN
    IF includes(lc, <<"m","e","d","i","u","m">>)
       \/ includes(lc, <<"m","o","d","e","r","a","t","e">>)
    THEN StrMedium
    ELSE IF includes(lc, <<"c","r","i","t","i","c","a","l">>)
            \/ includes(lc, <<"h","i","g","h"," ","r","i","s","k">>)
    THEN StrHigh
    ELSE StrLow

RiskFromText(content) ==
    LET lc == toLowerCase(content) IN
    IF includes(lc, <<"c","r","i","t","i","c","a","l">>)
       \/ includes(lc, <<"h","i","g","h"," ","r","i","s","k">>)
    THEN StrHigh
    ELSE IF includes(lc, <<"m","e","d","i","u","m">>)
            \/ includes(lc, <<"m","o","d","e","r","a","t","e">>)
    THEN StrMedium
    ELSE StrLow

\* the keyword scan applied to every answer, parsed or not
ScanParseAlwaysScans(content) ==
    [vulnerabilities |-> JArr(<<>>), riskLevel |-> RiskFromText(content)]

\* lines 442-458: a parsed null throws on its first property access, so it
\* lands in the catch like a text that does not parse
ScanParse(content) ==
    LET parsed == JSONparse(content) IN
    IF parsed # Nil /\ Val(parsed).t # "null"
    THEN LET vs == Get(Val(parsed), "vulnerabilities")
             rl == Get(Val(parsed), "risk_level")
         IN  [vulnerabilities |->
                  IF vs # Nil /\ Truthy(Val(vs)) THEN Val(vs) ELSE JArr(<<>>),
              riskLevel |->
                  IF rl # Nil /\ Truthy(Val(rl)) THEN Val(rl) ELSE StrLow]
    ELSE [vulnerabilities |-> JArr(<<>>), riskLevel |-> RiskFromText(content)]

\* lines 460-470
ScanResult(v) ==
    LET p == ScanParse(v.content) IN
    [status |-> 200,
     body |-> [risk_level |-> p.riskLevel,
               vulnerabilities |-> p.vulnerabilities,
               total_issues |-> lengthOf(p.vulnerabilities),
               model_used |-> v.model, provider |-> v.provider, timestamp |-> "now"]]

\* lines 428-433
ScanBegin ==
    /\ pc = "handler"
    /\ route = "security/vulnerability-scan"
    /\ authHeader' = Nil
    /\ calls' = Append(calls, Call("fetchRepositoryContent", "pending", Nil))
    /\ pc' = "vs_fetch"
    /\ UNCHANGED <<inflight, nodeEnv, mcpToken, route, user, nextCalls, responses, res, body,
                   diffContent, analysis, hasHighRisk, result, work>>

\* lines 433-440
ScanFetch ==
    /\ pc = "vs_fetch"
    /\ \E a \in {Ok(Some("content"))} \cup Failures :
        IF ~a.ok
        THEN Respond(ScanCatch(a.message)) /\ calls' = Settle(calls, a)
        ELSE /\ calls' = Append(Settle(calls, a), Call("analyzeVulnerabilities", "pending", Nil))
             /\ pc' = "vs_analyze"
             /\ UNCHANGED <<res, responses>>
    /\ UNCHANGED <<inflight, nodeEnv, mcpToken, route, authHeader, user, nextCalls, body,
                   diffContent, analysis, hasHighRisk, result, work>>

\* lines 436-470
ScanAnalyze ==
    /\ pc = "vs_analyze"
    /\ \E a \in {Ok(Some(v)) : v \in ScanValues} \cup Failures :
        IF ~a.ok
        THEN Respond(ScanCatch(a.message)) /\ calls' = Settle(calls, a)
        ELSE Respond(ScanResult(Val(a.value))) /\ calls' = Settle(calls, a)
    /\ UNCHANGED <<inflight, nodeEnv, mcpToken, route, authHeader, user, nextCalls, body,
                   diffContent, analysis, hasHighRisk, result, work>>

-----------------------------------------------------------------------------
Init ==
    /\ nodeEnv \in {"development", "production"}
    /\ mcpToken \in {Nil, Some(<<"s">>)}
    /\ pc = "idle"
    /\ route = "none"
    /\ authHeader = Nil
    /\ user = Nil
    /\ nextCalls = 0
    /\ responses = 0
    /\ res = NoRes
    /\ calls = <<>>
    /\ body = NoBody
    /\ diffContent = Nil
    /\ analysis = Nil
    /\ hasHighRisk = FALSE
    /\ result = Nil
    /\ work = NoWork
    /\ inflight = <<>>

\* A request arrives.
Receive ==
    /\ pc = "idle"
    /\ \E r \in Routes, h \in Headers :
        /\ route' = r
        /\ authHeader' = h
    /\ pc' = "auth"
    /\ UNCHANGED <<inflight, nodeEnv, mcpToken, user, nextCalls, responses, res, calls,
                   body, diffContent, analysis, hasHighRisk, result, work>>

\* The request has ended: its objects are released and the server awaits the next.
Release ==
    /\ pc = "done"
    /\ pc' = "idle"
    /\ route' = "none"
    /\ authHeader' = Nil
    /\ user' = Nil
    /\ nextCalls' = 0
    /\ responses' = 0
    /\ res' = NoRes
    /\ calls' = <<>>
    /\ body' = NoBody
    /\ diffContent' = Nil
    /\ analysis' = Nil
    /\ hasHighRisk' = FALSE
    /\ result' = Nil
    /\ work' = NoWork
    /\ UNCHANGED <<inflight, nodeEnv, mcpToken>>

AuthMiddleware ==
    /\ pc = "auth"
    /\ \E v \in {Nil} \cup {Some(c) : c \in JwtClaims} :
        LET o == AuthOutcome(authHeader, v) IN
        /\ user' = o.user
        /\ res' = o.res
        /\ calls' = o.calls
        /\ nextCalls' = o.next
        /\ responses' = o.sent
        /\ pc' = IF o.next > 0 THEN "handler" ELSE "done"
    /\ UNCHANGED <<inflight, nodeEnv, mcpToken, route, authHeader, body, diffContent,
                   analysis, hasHighRisk, result, work>>

Next ==
    \/ Receive
    \/ Release
    \/ AuthMiddleware
    \/ CodeReviewBegin
    \/ CodeReviewDiff
    \/ CodeReviewAnalysis
    \/ CodeReviewSuggest
    \/ CodeReviewPost
    \/ TestWriterBegin
    \/ TestWriterFetch
    \/ TestWriterGenerate
    \/ TestWriterCreate
    \/ BuildPredictorBegin
    \/ BuildPredictorChanges
    \/ BuildPredictorHistory
    \/ BuildPredictorDependencies
    \/ BuildPredictorPredict
    \/ DockerBegin
    \/ DockerBuild
    \/ DockerManifests
    \/ DeployBegin
    \/ DeployDone
    \/ ConversationalDeploy
    \/ Monitor
    \/ ScanBegin
    \/ ScanFetch
    \/ ScanAnalyze

Spec == Init /\ [][Next]_vars

\* a step of a handler: the code up to its next await, or up to its response
HandlerStep ==
    \/ CodeReviewBegin
    \/ CodeReviewDiff
    \/ CodeReviewAnalysis
    \/ CodeReviewSuggest
    \/ CodeReviewPost
    \/ TestWriterBegin
    \/ TestWriterFetch
    \/ TestWriterGenerate
    \/ TestWriterCreate
    \/ BuildPredictorBegin
    \/ BuildPredictorChanges
    \/ BuildPredictorHistory
    \/ BuildPredictorDependencies
    \/ BuildPredictorPredict
    \/ DockerBegin
    \/ DockerBuild
    \/ DockerManifests
    \/ DeployBegin
    \/ DeployDone
    \/ ConversationalDeploy
    \/ Monitor
    \/ ScanBegin
    \/ ScanFetch
    \/ ScanAnalyze

\* every awaited collaborator call settles, and the code between two awaits
\* runs to its end
SpecFair == Spec /\ WF_vars(HandlerStep)

-----------------------------------------------------------------------------
(* The helper functions on their own: a file name and a framework override  *)
(* are drawn, then lines 178 and 184 are applied to them                     *)

NameParts ==
    {<<"a">>, <<"d","/">>, <<".","j","s">>, <<".","p","y">>, <<".","j","a","v","a">>,
     <<".","j","s","o","n">>, <<".","t","e","s","t">>, <<".","s","p","e","c">>,
     <<".","r","b">>, <<".","c","o","n","s","t","r","u","c","t","o","r">>}

ExampleNames ==
    {<<"f","o","o",".","p","y">>,
     <<"a","/","b","/","W","i","d","g","e","t",".","j","a","v","a">>,
     <<"x",".","u","n","k","n","o","w","n","e","x","t">>,
     <<"m","a","i","n",".","g","o">>, <<"a",".","p","h","p">>, <<"a",".","t","s">>,
     <<"g","o">>}

FileNames ==
    {Concat(ps) : ps \in SeqsUpTo(NameParts, MaxNameParts) \ {<<>>}} \cup ExampleNames

Overrides ==
    {Nil, Some(""), Some("jest"), Some("pytest"), Some("junit"), Some("testing"),
     Some("rspec"), Some("phpunit"), Some("mocha")}

InitCatalog ==
    /\ nodeEnv = "production"
    /\ mcpToken = Nil
    /\ pc = "catalog"
    /\ route = "none"
    /\ authHeader = Nil
    /\ user = Nil
    /\ nextCalls = 0
    /\ responses = 0
    /\ res = NoRes
    /\ calls = <<>>
    /\ body = NoBody
    /\ diffContent = Nil
    /\ analysis = Nil
    /\ hasHighRisk = FALSE
    /\ result = Nil
    /\ inflight = <<>>
    /\ \E f \in FileNames, tf \in Overrides :
          work = [filename |-> f, test_framework |-> tf, framework |-> "",
                  test_file |-> <<>>]

\* lines 178-186: the framework of the file, then the name of its test file
ResolveTestFile ==
    /\ pc = "catalog"
    /\ LET detectedFramework ==
               ResolveFramework(work.test_framework, <<"c">>, work.filename)
       IN  work' = [work EXCEPT
                       !.framework = detectedFramework,
                       !.test_file = generateTestFileName(work.filename,
                                                          detectedFramework)]
    /\ pc' = "resolved"
    /\ UNCHANGED <<inflight, nodeEnv, mcpToken, route, authHeader, user, nextCalls, responses,
                   res, calls, body, diffContent, analysis, hasHighRisk, result>>

NextCatalog == ResolveTestFile

SpecCatalog == InitCatalog /\ [][NextCatalog]_vars

-----------------------------------------------------------------------------
(* Several requests at once. Node runs one handler at a time until it        *)
(* suspends on an await, so a step of a request is the code between two       *)
(* awaits; the locals of an invocation live in its own closure.               *)

Requests == 1..NumRequests

\* an invocation that has not started: its locals are unset
NewInvocation ==
    [pc |-> "idle", route |-> "none", body |-> NoBody, requested |-> Nil,
     diffContent |-> Nil, analysis |-> Nil, hasHighRisk |-> FALSE, result |-> Nil,
     include_dependencies |-> FALSE, dependencyAnalysis |-> Nil,
     calls |-> <<>>, answers |-> <<>>, res |-> NoRes]

\* what the collaborators answer while several requests are in flight
SomeFailures == {Fail(<<"4","0","4"," ","N","o","t"," ","F","o","u","n","d">>)}
SomeBodies == {b \in Bodies : b.pr_number}
SomeDiffs == {Ok(Some(UnsafeDeserialization)), Ok(Some(<<>>))}
SomeAnalyses ==
    {Ok(Some([content |-> Some(c), model |-> "model-a", provider |-> "provider-a"])) :
        c \in {<<"u","n","s","a","f","e">>, <<" ","o","k"," ">>}}
SomeSuggestions == {Ok(Some([content |-> Some(<<>>)]))}
SomePredictions ==
    {Ok(Some([content |-> TextNotJson, model |-> "model-a", provider |-> "provider-a"]))}

\* the answer a arrives at the suspended call of the invocation
Resume(inv, a) ==
    [inv EXCEPT !.calls = Settle(@, a), !.answers = Append(@, a)]

\* the invocation suspends on its next call
Await(inv, op, next) ==
    [inv EXCEPT !.calls = Append(@, Call(op, "pending", Nil)), !.pc = next]

\* the invocation sends its response and ends
Finish(inv, r) == [inv EXCEPT !.res = r, !.pc = "done"]

\* line 116-119: hasHighRisk, a const of the invocation that outlives the
\* await of line 104
HighRiskOfAnyInvocation(i) == \E j \in Requests : inflight[j].hasHighRisk

HighRiskOf(i) == inflight[i].hasHighRisk

\* only the invocation changes; process.env is never assigned
Only(i, inv) ==
    /\ inflight' = [inflight EXCEPT ![i] = inv]
    /\ UNCHANGED <<nodeEnv, mcpToken, pc, route, authHeader, user, nextCalls,
                   responses, res, calls, body, diffContent, analysis, hasHighRisk,
                   result, work>>

\* lines 64-84
ConcCodeReviewBegin(i) ==
    /\ inflight[i].pc = "idle"
    /\ \E b \in SomeBodies :
        LET inv == [inflight[i] EXCEPT !.route = "code-review", !.body = b] IN
        IF CodeReviewValidate(b) # Nil
        THEN Only(i, Finish(inv, Val(CodeReviewValidate(b))))
        ELSE Only(i, Await(inv, "fetchPRDiff", "cr_diff"))

\* lines 84-94
ConcCodeReviewDiff(i) ==
    /\ inflight[i].pc = "cr_diff"
    /\ \E a \in SomeDiffs \cup SomeFailures :
        LET inv == Resume(inflight[i], a) IN
        IF ~a.ok
        THEN Only(i, Finish(inv, CodeReviewCatch(a.message)))
        ELSE IF DiffMissing(a.value)
        THEN Only(i, Finish([inv EXCEPT !.diffContent = a.value], NoDiffContent))
        ELSE Only(i, Await([inv EXCEPT !.diffContent = a.value],
                           "analyzeCode", "cr_analysis"))

\* lines 94-107
ConcCodeReviewAnalysis(i) ==
    /\ inflight[i].pc = "cr_analysis"
    /\ \E a \in SomeAnalyses \cup SomeFailures :
        LET inv == Resume(inflight[i], a) IN
        IF ~a.ok
        THEN Only(i, Finish(inv, CodeReviewCatch(a.message)))
        ELSE Only(i, Await([inv EXCEPT
                               !.analysis = a.value,
                               !.hasHighRisk = HasHighRisk(Val(Val(a.value).content))],
                           "generateResponse", "cr_suggest"))

\* lines 104-127
ConcCodeReviewSuggest(i) ==
    /\ inflight[i].pc = "cr_suggest"
    /\ \E a \in SomeSuggestions \cup SomeFailures :
        LET inv == Resume(inflight[i], a) IN
        IF ~a.ok
        THEN Only(i, Finish(inv, CodeReviewCatch(a.message)))
        ELSE Only(i, Await([inv EXCEPT
                               !.result =
                                   Some(ReviewResult(Val(inv.analysis), HighRiskOf(i),
                                                     ExtractSuggestions(Val(a.value).content)))],
                           "postReviewComment", "cr_post"))

\* lines 127-129
ConcCodeReviewPost(i) ==
    /\ inflight[i].pc = "cr_post"
    /\ \E a \in {Ok(Nil)} \cup SomeFailures :
        LET inv == Resume(inflight[i], a) IN
        IF ~a.ok
        THEN Only(i, Finish(inv, CodeReviewCatch(a.message)))
        ELSE Only(i, Finish(inv, [status |-> 200, body |-> Val(inv.result)]))

\* lines 215-220
ConcBuildPredictorBegin(i) ==
    /\ inflight[i].pc = "idle"
    /\ \E inc \in {Nil, Some(FALSE)} :
        Only(i, Await([inflight[i] EXCEPT
                          !.route = "build-predictor",
                          !.requested = inc,
                          !.include_dependencies = IncludeDependencies(inc)],
                      "getRecentChanges", "bp_changes"))

\* lines 220-221
ConcBuildPredictorChanges(i) ==
    /\ inflight[i].pc = "bp_changes"
    /\ \E a \in {Ok(Some("changes"))} \cup SomeFailures :
        LET inv == Resume(inflight[i], a) IN
        IF ~a.ok
        THEN Only(i, Finish(inv, BuildPredictorCatch(a.message)))
        ELSE Only(i, Await(inv, "getBuildHistory", "bp_history"))

\* lines 221-234
ConcBuildPredictorHistory(i) ==
    /\ inflight[i].pc = "bp_history"
    /\ \E a \in {Ok(Some("history"))} \cup SomeFailures :
        LET inv == Resume(inflight[i], a) IN
        IF ~a.ok
        THEN Only(i, Finish(inv, BuildPredictorCatch(a.message)))
        ELSE IF inv.include_dependencies
        THEN Only(i, Await(inv, "analyzeDependencies", "bp_deps"))
        ELSE Only(i, Await(inv, "predictBuildOutcome", "bp_predict"))

\* lines 225-234
ConcBuildPredictorDependencies(i) ==
    /\ inflight[i].pc = "bp_deps"
    /\ \E a \in {Ok(Some("dependencies"))} \cup SomeFailures :
        LET inv == Resume(inflight[i], a) IN
        IF ~a.ok
        THEN Only(i, Finish(inv, BuildPredictorCatch(a.message)))
        ELSE Only(i, Await([inv EXCEPT !.dependencyAnalysis = a.value],
                           "predictBuildOutcome", "bp_predict"))

\* lines 229-258
ConcBuildPredictorPredict(i) ==
    /\ inflight[i].pc = "bp_predict"
    /\ \E a \in SomePredictions \cup SomeFailures :
        LET inv == Resume(inflight[i], a) IN
        IF ~a.ok
        THEN Only(i, Finish(inv, BuildPredictorCatch(a.message)))
        ELSE Only(i, Finish(inv, BuildPredictorResult(Val(a.value), inv)))

InitConc ==
    /\ nodeEnv \in {"development", "production"}
    /\ mcpToken = Nil
    /\ pc = "concurrent"
    /\ route = "none"
    /\ authHeader = Nil
    /\ user = Nil
    /\ nextCalls = 0
    /\ responses = 0
    /\ res = NoRes
    /\ calls = <<>>
    /\ body = NoBody
    /\ diffContent = Nil
    /\ analysis = Nil
    /\ hasHighRisk = FALSE
    /\ result = Nil
    /\ work = NoWork
    /\ inflight = [i \in Requests |-> NewInvocation]

NextConc ==
    \E i \in Requests :
        \/ ConcCodeReviewBegin(i)
        \/ ConcCodeReviewDiff(i)
        \/ ConcCodeReviewAnalysis(i)
        \/ ConcCodeReviewSuggest(i)
        \/ ConcCodeReviewPost(i)
        \/ ConcBuildPredictorBegin(i)
        \/ ConcBuildPredictorChanges(i)
        \/ ConcBuildPredictorHistory(i)
        \/ ConcBuildPredictorDependencies(i)
        \/ ConcBuildPredictorPredict(i)

SpecConc == InitConc /\ [][NextConc]_vars

-----------------------------------------------------------------------------
(* Properties of authMiddleware *)

\* authMiddleware has run for the request and no handler has started yet
AuthDecided == pc = "handler" \/ (pc = "done" /\ nextCalls = 0)

\* the header is present and starts with 'Bearer '
HasBearer ==
    /\ authHeader # Nil
    /\ Len(Val(authHeader)) >= 7
    /\ \A i \in 1..7 : Val(authHeader)[i] = BearerPrefix[i]

\* the text after the prefix
Credential == [i \in 1..(Len(Val(authHeader)) - 7) |-> Val(authHeader)[i + 7]]

NonBlank(t) == \E i \in 1..Len(t) : t[i] \notin {" ", "\n", "\t"}

Accepted == pc = "handler" /\ nextCalls = 1 /\ responses = 0 /\ res = NoRes
Denied == pc = "done" /\ nextCalls = 0 /\ responses = 1 /\ user = Nil

VerifySucceeded == \E i \in 1..Len(calls) : calls[i].op = "jwt.verify" /\ calls[i].outcome = "ok"
VerifyFailed == \E i \in 1..Len(calls) : calls[i].op = "jwt.verify" /\ calls[i].outcome = "fail"

\* C1: for a non-blank bearer credential t the gate decides in the order
\* (a) development flag and t = shared secret: accept as the system identity,
\* jwt.verify not attempted; (b) otherwise jwt.verify is attempted once and, when
\* it succeeds, the request is accepted with the decoded claims; (c) when it
\* fails, accept as the system identity if t = shared secret, else deny with
\* 401 'Invalid token'.
C1_ValidationOrder ==
    (AuthDecided /\ HasBearer /\ NonBlank(Credential)) =>
        IF nodeEnv = "development" /\ mcpToken = Some(Credential)
        THEN Accepted /\ user = Some(SystemUser) /\ calls = <<>>
        ELSE /\ Len(calls) = 1
             /\ calls[1].op = "jwt.verify"
             /\ calls[1].outcome \in {"ok", "fail"}
             /\ calls[1].outcome = "ok" =>
                    Accepted /\ user = calls[1].value /\ user # Nil
             /\ calls[1].outcome = "fail" =>
                    IF mcpToken = Some(Credential)
                    THEN Accepted /\ user = Some(SystemUser)
                    ELSE Denied /\ res = InvalidCredential

\* a request accepted through the development-mode comparison
C1_Witness ==
    /\ pc = "handler"
    /\ nodeEnv = "development"
    /\ HasBearer
    /\ mcpToken = Some(Credential)
    /\ user = Some(SystemUser)
    /\ calls = <<>>

\* C2: when the development flag is not set, no request is accepted with the
\* system identity on the strength of its credential equalling the shared
\* secret, that is without its signature having verified.
C2_BypassOnlyInDevelopment ==
    (nodeEnv # "development" /\ pc = "handler") =>
        ~(user = Some(SystemUser) /\ ~VerifySucceeded)

\* C3: an absent header, or one that does not start with 'Bearer ', is refused
\* with 401 'No token provided or invalid format'; a blank credential with 401
\* 'Empty token provided'; in both cases jwt.verify is not attempted, no
\* identity is attached and next() is not called.
C3_MissingOrEmptyCredential ==
    AuthDecided =>
        /\ ~HasBearer => (Denied /\ res = MissingCredential /\ calls = <<>>)
        /\ (HasBearer /\ ~NonBlank(Credential)) =>
               (Denied /\ res = EmptyCredential /\ calls = <<>>)

\* a whitespace-only credential refused as empty
C3_Witness ==
    /\ Denied
    /\ HasBearer
    /\ Len(Credential) > 0
    /\ ~NonBlank(Credential)
    /\ res = EmptyCredential

-----------------------------------------------------------------------------
(* Properties of the code-review pipeline *)

\* the collaborator calls of the request, in order
CollabCalls == SelectSeq(calls, LAMBDA c : c.op # "jwt.verify")

Ops(cs) == [i \in 1..Len(cs) |-> cs[i].op]

IsPrefix(a, b) == Len(a) <= Len(b) /\ \A i \in 1..Len(a) : a[i] = b[i]

\* sub occurs in text
ContainsText(text, sub) ==
    \E o \in 0..(Len(text) - Len(sub)) : \A j \in 1..Len(sub) : text[o + j] = sub[j]

RiskWords ==
    {<<"s","e","c","u","r","i","t","y">>,
     <<"v","u","l","n","e","r","a","b","i","l","i","t","y">>,
     <<"c","r","i","t","i","c","a","l">>,
     <<"d","a","n","g","e","r","o","u","s">>,
     <<"u","n","s","a","f","e">>}

\* a risk word occurs in text, whatever the case of its letters
MentionsRisk(text) ==
    \E k \in RiskWords : \E o \in 0..(Len(text) - Len(k)) :
        \A j \in 1..Len(k) : LowerChar(text[o + j]) = k[j]

ReviewStages == <<"fetchPRDiff", "analyzeCode", "generateResponse", "postReviewComment">>

ReviewSucceeded == route = "code-review" /\ pc = "done" /\ res.status = 200

\* C4: in a code-review request the stages run in the order validate, fetch
\* diff, analysis, risk classification, suggestion extraction, post comment,
\* respond, each collaborator call being made at most once; a failed fetch,
\* analysis or post is the last call and ends the request with an error
\* response; the analysis is requested only after a non-blank diff was fetched,
\* the comment is posted only after the analysis succeeded, and a success
\* record is returned only after the post succeeded.
C4_StageOrder ==
    route = "code-review" =>
        LET cs == CollabCalls IN
        /\ IsPrefix(Ops(cs), ReviewStages)
        /\ Len(cs) >= 1 => (body.repository /\ body.pr_number)
        /\ Len(cs) >= 3 =>
               /\ analysis # Nil
               /\ hasHighRisk = MentionsRisk(Val(Val(analysis).content))
        /\ \A i \in 1..Len(cs) : i < Len(cs) => cs[i].outcome = "ok"
        /\ \A i \in 1..Len(cs) :
               (cs[i].outcome = "fail"
                /\ cs[i].op \in {"fetchPRDiff", "analyzeCode", "postReviewComment"})
               => (pc = "done" /\ res.status >= 400 /\ responses = 1)
        /\ Len(cs) >= 2 =>
               /\ cs[1].outcome = "ok"
               /\ diffContent = cs[1].value
               /\ diffContent # Nil
               /\ NonBlank(Val(diffContent))
        /\ Len(cs) >= 4 => (cs[2].outcome = "ok" /\ analysis = cs[2].value)
        /\ (pc = "done" /\ res.status = 200) =>
               (Len(cs) = 4 /\ cs[4].outcome = "ok" /\ responses = 1)
        /\ pc = "done" => \A i \in 1..Len(cs) : cs[i].outcome # "pending"

\* a review that ran all its stages and returned its record
C4_Witness == ReviewSucceeded /\ Len(CollabCalls) = 4 /\ CollabCalls[4].outcome = "ok"

\* C5: when the suggestion-extraction call fails, the request still ends with a
\* success record whose suggestions are the single generic line, the review
\* comment having been posted.
C5_SuggestionFailureIsSoft ==
    (/\ route = "code-review"
     /\ pc = "done"
     /\ \E i \in 1..Len(calls) :
            calls[i].op = "generateResponse" /\ calls[i].outcome = "fail")
    => /\ res.status = 200
       /\ res.body.suggestions = <<GenericSuggestion>>
       /\ \E j \in 1..Len(calls) :
              calls[j].op = "postReviewComment" /\ calls[j].outcome = "ok"

\* C6: a fetched diff that is missing, empty or whitespace-only ends the request
\* with the 400 response naming the diff; no LLM call is made and no comment
\* is posted.
C6_EmptyDiffIsValidationError ==
    (/\ route = "code-review"
     /\ Len(CollabCalls) >= 1
     /\ CollabCalls[1].outcome = "ok"
     /\ (CollabCalls[1].value = Nil \/ ~NonBlank(Val(CollabCalls[1].value))))
    => /\ pc = "done"
       /\ responses = 1
       /\ res.status = 400
       /\ res.body.error = "No diff content available for analysis"
       /\ Ops(CollabCalls) = <<"fetchPRDiff">>

\* a whitespace-only diff refused
C6_Witness ==
    /\ route = "code-review"
    /\ pc = "done"
    /\ Len(CollabCalls) = 1
    /\ CollabCalls[1].outcome = "ok"
    /\ CollabCalls[1].value = Some(<<" ", "\n">>)
    /\ res = NoDiffContent

UnsafeDiffReviewed ==
    /\ ReviewSucceeded
    /\ diffContent # Nil
    /\ ContainsText(Val(diffContent), UnsafeDeserialization)

\* C7 as stated: a successful review of a diff containing 'unsafe
\* deserialization' returns 'changes_requested' and 'high', whatever the
\* analysis text.
C7_UnsafeDiffAlwaysHigh ==
    UnsafeDiffReviewed =>
        (res.body.status = "changes_requested" /\ res.body.risk_level = "high")

\* C7, amended: a successful review of a diff containing 'unsafe
\* deserialization' returns 'changes_requested' and 'high' exactly when the
\* analysis text the LLM returned mentions a risk keyword, and 'approved' and
\* 'low' otherwise: the diff is not scanned.
C7_UnsafeDiffFollowsAnalysis ==
    UnsafeDiffReviewed =>
        /\ res.body.analysis = Val(Val(CollabCalls[2].value).content)
        /\ MentionsRisk(res.body.analysis) =>
               (res.body.status = "changes_requested" /\ res.body.risk_level = "high")
        /\ ~MentionsRisk(res.body.analysis) =>
               (res.body.status = "approved" /\ res.body.risk_level = "low")

\* such a diff reviewed with an analysis that says 'unsafe'
C7_Witness ==
    /\ UnsafeDiffReviewed
    /\ res.body.analysis = <<"u","n","s","a","f","e">>
    /\ res.body.risk_level = "high"

\* C8: in every success record of code-review, risk_level is 'high' and status
\* 'changes_requested' when the lower-cased analysis text contains one of the
\* five keywords, and 'low' and 'approved' when it contains none; status is
\* 'changes_requested' exactly when risk_level is 'high'.
C8_RiskClassification ==
    ReviewSucceeded =>
        /\ IF MentionsRisk(Val(Val(analysis).content))
           THEN res.body.risk_level = "high" /\ res.body.status = "changes_requested"
           ELSE res.body.risk_level = "low" /\ res.body.status = "approved"
        /\ res.body.status = "changes_requested" <=> res.body.risk_level = "high"
        /\ res.body.status \in {"changes_requested", "approved"}

\* an upper-case keyword classified as high risk
C8_Witness ==
    /\ ReviewSucceeded
    /\ Val(analysis).content = Some(<<"S","E","C","U","R","I","T","Y">>)
    /\ res.body.risk_level = "high"
    /\ res.body.status = "changes_requested"

-----------------------------------------------------------------------------
(* Properties of the error responses *)

\* the request ended on a collaborator call that failed
EndedOnFailure ==
    /\ pc = "done"
    /\ CollabCalls # <<>>
    /\ CollabCalls[Len(CollabCalls)].outcome = "fail"

FailureMessage == Val(CollabCalls[Len(CollabCalls)].value)

Has404(m) == ContainsText(m, <<"4","0","4">>)
Has401or403(m) == ContainsText(m, <<"4","0","1">>) \/ ContainsText(m, <<"4","0","3">>)

GitHubTokenHint ==
    Lit("Authentication failed. Please check your GitHub token permissions.")

\* the status mapping of the taxonomy
TaxonomyResponse ==
    IF Has404(FailureMessage) THEN res.status = 404
    ELSE IF Has401or403(FailureMessage)
    THEN res.status = 401 /\ res.body.message = GitHubTokenHint
    ELSE res.status = 500 /\ res.body.message = ErrText(FailureMessage)

\* C9 as stated: in every pipeline a collaborator failure is mapped by the
\* taxonomy (not found: 404; auth failure: 401 with a hint; other: 500).
C9_TaxonomyInEveryPipeline == EndedOnFailure => TaxonomyResponse

\* C9, amended: in code-review a collaborator failure whose message contains
\* '404' yields 404, otherwise one whose message contains '401' or '403' yields
\* 401 with the hint about the GitHub token, and any other yields 500; in every
\* other pipeline every collaborator failure yields 500 with the error's message.
C9_TaxonomyOnlyInCodeReview ==
    EndedOnFailure =>
        IF route = "code-review"
        THEN TaxonomyResponse
        ELSE res.status = 500 /\ res.body.message = ErrText(FailureMessage)

\* a 'not found' failure of test-writer answered with 500
C9_Witness ==
    /\ EndedOnFailure
    /\ route = "test-writer"
    /\ Has404(FailureMessage)
    /\ res.status = 500

\* a code-review or test-writer request that lacks a required field has ended
EndedOnMissingField ==
    /\ pc = "done"
    /\ nextCalls = 1
    /\ route \in {"code-review", "test-writer"}
    /\ (~body.repository \/ ~body.pr_number)

RequiredSetEnumerated ==
    /\ res.status = 400
    /\ responses = 1
    /\ CollabCalls = <<>>
    /\ res.body.required_parameters = <<"repository", "pr_number">>

\* the response says that field f is missing
NamesMissing(f) ==
    IF route = "code-review"
    THEN res.body.error = (IF f = "repository"
                           THEN "Missing required parameter: repository"
                           ELSE "Missing required parameter: pr_number")
    ELSE res.body.received[f] = FALSE

\* C10 as stated: the 400 response is sent before any collaborator call, names
\* every missing field and enumerates the required field set.
C10_EveryMissingFieldNamed ==
    EndedOnMissingField =>
        /\ RequiredSetEnumerated
        /\ ~body.repository => NamesMissing("repository")
        /\ ~body.pr_number => NamesMissing("pr_number")

\* C10, amended: the 400 response is sent before any collaborator call and
\* enumerates the required field set; test-writer's response flags every
\* missing field, code-review's names only the first missing field in the
\* order repository, pr_number.
C10_FirstMissingFieldNamed ==
    EndedOnMissingField =>
        /\ RequiredSetEnumerated
        /\ IF route = "test-writer"
           THEN /\ res.body.received.repository = body.repository
                /\ res.body.received.pr_number = body.pr_number
           ELSE /\ NamesMissing(IF ~body.repository THEN "repository" ELSE "pr_number")
                /\ ~body.repository => ~NamesMissing("pr_number")

\* code-review with both fields missing names the repository alone
C10_Witness ==
    /\ EndedOnMissingField
    /\ route = "code-review"
    /\ ~body.repository
    /\ ~body.pr_number
    /\ res = MissingRepository

-----------------------------------------------------------------------------
(* Build predictor: the fallback of the prediction parser *)

LastCall == CollabCalls[Len(CollabCalls)]

\* the LLM collaborator has answered the build predictor with a text
PredictionAnswered ==
    /\ pc = "done"
    /\ route = "build-predictor"
    /\ CollabCalls # <<>>
    /\ LastCall.op = "predictBuildOutcome"
    /\ LastCall.outcome = "ok"

PredictionText == Val(LastCall.value).content

\* the text is not the text of any JSON value
Unparsable(text) == \A v \in JsonDocs : stringify(v) # text

FixedDefault ==
    [success_probability |-> JNum(750),
     estimated_duration |-> JStr(<<"5","-","8"," ","m","i","n","u","t","e","s">>),
     potential_issues |->
         JArr(<<JStr(<<"D","e","p","e","n","d","e","n","c","y"," ","c","o","n","f","l","i","c","t","s"," ","p","o","s","s","i","b","l","e">>)>>),
     resource_requirements |->
         JObj([cpu |-> JStr(<<"m","e","d","i","u","m">>),
               memory |-> JStr(<<"m","e","d","i","u","m">>)]),
     confidence_score |-> JNum(7)]

OwnKeys ==
    {"commit_sha", "branch", "model_used", "provider", "dependency_analysis",
     "timestamp"}

\* C11: whatever text the LLM collaborator answers the build predictor with,
\* the request ends in a success record; when the text cannot be parsed, the
\* prediction fields of the record are exactly the fixed default.
C11_UnparsablePredictionGivesDefault ==
    PredictionAnswered =>
        /\ res.status = 200
        /\ Unparsable(PredictionText) =>
              /\ DOMAIN res.body = DOMAIN FixedDefault \cup OwnKeys
              /\ \A k \in DOMAIN FixedDefault : res.body[k] = FixedDefault[k]

\* a truncated document is answered with the default prediction
C11_Witness ==
    /\ PredictionAnswered
    /\ PredictionText = TextTruncated
    /\ res.status = 200
    /\ res.body.success_probability = JNum(750)
    /\ res.body.confidence_score = JNum(7)

-----------------------------------------------------------------------------
(* Vulnerability scanner: the record it returns *)

\* the LLM collaborator has answered the vulnerability scanner with a text
ScanAnswered ==
    /\ pc = "done"
    /\ route = "security/vulnerability-scan"
    /\ CollabCalls # <<>>
    /\ LastCall.op = "analyzeVulnerabilities"
    /\ LastCall.outcome = "ok"

ScanText == Val(LastCall.value).content

Mentions(text, word) == ContainsText(toLowerCase(text), word)

\* the risk level the fallback is said to give the text
FallbackRisk(text) ==
    IF Mentions(text, <<"c","r","i","t","i","c","a","l">>)
       \/ Mentions(text, <<"h","i","g","h"," ","r","i","s","k">>)
    THEN JStr(<<"h","i","g","h">>)
    ELSE IF Mentions(text, <<"m","e","d","i","u","m">>)
            \/ Mentions(text, <<"m","o","d","e","r","a","t","e">>)
    THEN JStr(<<"m","e","d","i","u","m">>)
    ELSE JStr(<<"l","o","w">>)

\* C12: when the answer of the LLM collaborator cannot be parsed, the scan
\* still returns a success record, with an empty vulnerabilities list and the
\* risk level read off the lower-cased text: high for 'critical' or 'high
\* risk', else medium for 'medium' or 'moderate', else low.
C12_FallbackRiskFromText ==
    (ScanAnswered /\ Unparsable(ScanText)) =>
        /\ res.status = 200
        /\ res.body.vulnerabilities = JArr(<<>>)
        /\ res.body.risk_level = FallbackRisk(ScanText)

\* 'Critical issue found' is rated high with no vulnerabilities
C12_Witness ==
    /\ ScanAnswered
    /\ ScanText = TextCritical
    /\ res.status = 200
    /\ res.body.risk_level = JStr(<<"h","i","g","h">>)
    /\ res.body.vulnerabilities = JArr(<<>>)

\* C13: every success record of the vulnerability scanner carries a
\* total_issues count equal to the number of elements of the vulnerabilities
\* list of the same record, whatever the LLM collaborator answered.
C13_TotalIssuesCountsList ==
    (ScanAnswered /\ res.status = 200) =>
        /\ res.body.vulnerabilities.t = "array"
        /\ res.body.total_issues = Some(Len(res.body.vulnerabilities.items))

-----------------------------------------------------------------------------
(* Test writer: the files it generates and creates tests for *)

TestWriterSucceeded ==
    /\ pc = "done"
    /\ route = "test-writer"
    /\ res.status = 200

\* the files the DevOps collaborator returned
FetchedFiles == CollabCalls[1].value

IsSuffix(a, b) ==
    Len(a) <= Len(b) /\ \A i \in 1..Len(a) : a[i] = b[Len(b) - Len(a) + i]

AllowedEndings ==
    {<<".","j","s">>, <<".","t","s">>, <<".","p","y">>, <<".","j","a","v","a">>,
     <<".","g","o">>}

\* the file has content and its name ends in an allowed extension
HasContentAndAllowedName(file) ==
    /\ file.content # Nil
    /\ file.content # Some(<<>>)
    /\ \E e \in AllowedEndings : IsSuffix(e, file.filename)

CallsOf(op) == SelectSeq(CollabCalls, LAMBDA c : c.op = op)

\* C14: on a successful test-writer request exactly the fetched files that
\* have content and an allowed extension get one test-generation call and one
\* test-file creation each, in input order, all generations before all
\* creations; tests_generated is the length of test_files and the number of
\* files created.
C14_EligibleFilesInOrder ==
    TestWriterSucceeded =>
        LET expected == SelectSeq(FetchedFiles, HasContentAndAllowedName)
            gen == CallsOf("generateTests")
            cre == CallsOf("createTestFile")
            n == Len(expected)
        IN  /\ Ops(CollabCalls) = <<"fetchChangedFiles">>
                                    \o [i \in 1..n |-> "generateTests"]
                                    \o [i \in 1..n |-> "createTestFile"]
            /\ \A i \in 1..Len(CollabCalls) : CollabCalls[i].outcome = "ok"
            /\ \A i \in 1..n :
                  /\ gen[i].arg = expected[i].filename
                  /\ work.generatedTests[i].filename = expected[i].filename
                  /\ cre[i].arg = work.generatedTests[i].test_file
                  /\ res.body.test_files[i] = cre[i].arg
            /\ res.body.tests_generated = n
            /\ Len(res.body.test_files) = n
            /\ Len(cre) = n

\* a file without an allowed extension is skipped, the next one is served
C14_Witness ==
    /\ TestWriterSucceeded
    /\ Len(FetchedFiles) = 2
    /\ FetchedFiles[1].filename = <<"R","E","A","D","M","E",".","m","d">>
    /\ FetchedFiles[2].filename = <<"d","/","W",".","j","a","v","a">>
    /\ res.body.tests_generated = 1
    /\ Len(CallsOf("createTestFile")) = 1

-----------------------------------------------------------------------------
(* The helper functions: test-file names and frameworks *)

Resolved == pc = "resolved"

LastIndexOf(s, c) ==
    IF \E i \in 1..Len(s) : s[i] = c
    THEN CHOOSE i \in 1..Len(s) : s[i] = c /\ \A j \in (i + 1)..Len(s) : s[j] # c
    ELSE 0

\* what follows the last dot of the name
FinalExtension(name) == SubSeq(name, LastIndexOf(name, ".") + 1, Len(name))

\* the name has a final extension: a dot in its last path segment, with
\* something after it
HasFinalExtension(name) ==
    /\ LastIndexOf(name, ".") > LastIndexOf(name, "/")
    /\ FinalExtension(name) # <<>>

\* the name without its final extension
Base(name) == SubSeq(name, 1, LastIndexOf(name, ".") - 1)

LastSegment(path) == SubSeq(path, LastIndexOf(path, "/") + 1, Len(path))

\* the test-file name the rule of the framework gives
DerivedName(name, framework) ==
    CASE framework = "jest" -> Base(name) \o <<".","t","e","s","t",".">> \o FinalExtension(name)
      [] framework = "pytest" -> <<"t","e","s","t","_">> \o LastSegment(Base(name)) \o <<".","p","y">>
      [] framework = "junit" -> Base(name) \o <<"T","e","s","t",".","j","a","v","a">>
      [] framework = "testing" -> Base(name) \o <<"_","t","e","s","t",".","g","o">>
      [] framework = "rspec" -> Base(name) \o <<"_","s","p","e","c",".","r","b">>
      [] framework = "phpunit" -> Base(name) \o <<"T","e","s","t",".","p","h","p">>
      [] OTHER -> Base(name) \o <<".","t","e","s","t",".">> \o FinalExtension(name)

\* C15: for every file name with a final extension the test-file name is the
\* one the rule of its framework gives, where base is the file name with only
\* its final extension removed.
C15_NameFromFinalExtension ==
    (Resolved /\ HasFinalExtension(work.filename)) =>
        work.test_file = DerivedName(work.filename, work.framework)

OverrideGiven == work.test_framework # Nil /\ work.test_framework # Some("")

\* the table from extensions to frameworks
FrameworkOf(ext) ==
    CASE ext \in {<<"j","s">>, <<"t","s">>} -> "jest"
      [] ext = <<"p","y">> -> "pytest"
      [] ext = <<"j","a","v","a">> -> "junit"
      [] ext = <<"g","o">> -> "testing"
      [] ext = <<"r","b">> -> "rspec"
      [] ext = <<"p","h","p">> -> "phpunit"
      [] OTHER -> "generic"

\* C16 as stated: the framework of a file is the override of the caller when
\* one is given, and else is the entry of the final extension of the file name
\* in the table, 'generic' for every extension the table does not have.
C16_FrameworkFromExtensionOnly ==
    Resolved =>
        work.framework = IF OverrideGiven THEN Val(work.test_framework)
                         ELSE FrameworkOf(FinalExtension(work.filename))

NamedLikeTest(name) ==
    \/ ContainsText(name, <<".","t","e","s","t",".">>)
    \/ ContainsText(name, <<".","s","p","e","c",".">>)

\* C16, amended: the framework of a file is the non-empty override of the
\* caller when one is given; else it is 'existing' when the file name contains
\* '.test.' or '.spec.'; else it is looked up under the text after the last
\* '.' of the file name (the whole name when it has no '.'): the table entry
\* when there is one, the inherited member when the text names a member every
\* object inherits, and 'generic' for everything else.
C16_FrameworkExistingThenExtension ==
    Resolved =>
        work.framework =
            IF OverrideGiven THEN Val(work.test_framework)
            ELSE IF NamedLikeTest(work.filename) THEN "existing"
            ELSE IF FinalExtension(work.filename) \in InheritedMembers
            THEN "inherited member"
            ELSE FrameworkOf(FinalExtension(work.filename))

\* a.test.js without an override: 'existing', although its extension is js
C16_Witness ==
    /\ Resolved
    /\ work.filename = <<"a",".","t","e","s","t",".","j","s">>
    /\ work.test_framework = Nil
    /\ work.framework = "existing"

-----------------------------------------------------------------------------
(* Build predictor: the order of its collaborator calls *)

BuildPredictorStarted == route = "build-predictor" /\ CollabCalls # <<>>

\* the request asks for the dependency analysis, or leaves the choice open
DependenciesWanted == work.requested \in {Nil, Some(TRUE)}

GatheringOrder ==
    IF DependenciesWanted
    THEN <<"getRecentChanges", "getBuildHistory", "analyzeDependencies",
           "predictBuildOutcome">>
    ELSE <<"getRecentChanges", "getBuildHistory", "predictBuildOutcome">>

\* C17: the build predictor asks for the recent changes, then the build
\* history, then the dependency analysis exactly when include_dependencies is
\* set (the default), and only then the LLM prediction; every call starts
\* after the one before it succeeded, so that a failed step ends the calls and
\* no two calls are in flight together; a success record follows the whole
\* order.
C17_SequentialGathering ==
    BuildPredictorStarted =>
        /\ IsPrefix(Ops(CollabCalls), GatheringOrder)
        /\ \A i \in 1..(Len(CollabCalls) - 1) : CollabCalls[i].outcome = "ok"
        /\ Cardinality({i \in 1..Len(CollabCalls) : CollabCalls[i].outcome = "pending"}) <= 1
        /\ (pc = "done" /\ res.status = 200) => Ops(CollabCalls) = GatheringOrder
        /\ (pc = "done" /\ res.status # 200) => LastCall.outcome = "fail"

\* include_dependencies left out: the dependency analysis is asked for
C17_Witness ==
    /\ BuildPredictorStarted
    /\ pc = "done"
    /\ res.status = 200
    /\ work.requested = Nil
    /\ Ops(CollabCalls) = <<"getRecentChanges", "getBuildHistory",
                            "analyzeDependencies", "predictBuildOutcome">>

InRange(v, lo, hi) == v.t = "number" /\ lo <= v.tenths /\ v.tenths <= hi

\* C19: every success record of the build predictor carries a success
\* probability in [0,100] and a confidence score in [0,1] (numbers are kept in
\* tenths), whatever text the LLM collaborator answered.
C19_PredictionWithinRanges ==
    (PredictionAnswered /\ res.status = 200) =>
        /\ "success_probability" \in DOMAIN res.body
        /\ InRange(res.body.success_probability, 0, 1000)
        /\ "confidence_score" \in DOMAIN res.body
        /\ InRange(res.body.confidence_score, 0, 10)

-----------------------------------------------------------------------------
(* Monitor: the alerts of a metrics block *)

Monitored == pc = "done" /\ route = "monitor" /\ res.status = 200

HighCpu == "High CPU usage detected"
ElevatedErrorRate == "Elevated error rate detected"

HasAlert(a) == \E i \in 1..Len(res.body.alerts) : res.body.alerts[i] = a

\* C20: the CPU sample is in [0,100) and the error-rate sample in [0,5) (both
\* kept in thousandths); the alerts hold 'High CPU usage detected' exactly
\* when cpu_usage > 80 and 'Elevated error rate detected' exactly when
\* error_rate > 3, the CPU alert first, each at most once, and nothing else.
C20_AlertRules ==
    Monitored =>
        LET cpu == res.body.metrics.cpu_usage
            err == res.body.metrics.error_rate
            alerts == res.body.alerts
        IN  /\ 0 <= cpu /\ cpu < 100 * 1000
            /\ 0 <= err /\ err < 5 * 1000
            /\ HasAlert(HighCpu) <=> cpu > 80 * 1000
            /\ HasAlert(ElevatedErrorRate) <=> err > 3 * 1000
            /\ \A i \in 1..Len(alerts) : alerts[i] \in {HighCpu, ElevatedErrorRate}
            /\ \A i, j \in 1..Len(alerts) : alerts[i] = alerts[j] => i = j
            /\ (HasAlert(HighCpu) /\ HasAlert(ElevatedErrorRate)) =>
                  alerts = <<HighCpu, ElevatedErrorRate>>

\* a CPU sample of exactly 80 raises no alert, an error rate of 3.005 does
C20_Witness ==
    /\ Monitored
    /\ res.body.metrics.cpu_usage = 80 * 1000
    /\ res.body.metrics.error_rate = 3005
    /\ res.body.alerts = <<ElevatedErrorRate>>

-----------------------------------------------------------------------------
(* Requests in flight together *)

\* the code-review handler read from top to bottom, for a request on its own:
\* the response and the calls, given the body and the answers in order
ReviewAlone(b, as) ==
    IF ~b.repository THEN [res |-> MissingRepository, ops |-> <<>>]
    ELSE IF ~b.pr_number THEN [res |-> MissingPrNumber, ops |-> <<>>]
    ELSE IF ~as[1].ok
    THEN [res |-> CodeReviewCatch(as[1].message), ops |-> <<"fetchPRDiff">>]
    ELSE IF DiffMissing(as[1].value)
    THEN [res |-> NoDiffContent, ops |-> <<"fetchPRDiff">>]
    ELSE IF ~as[2].ok
    THEN [res |-> CodeReviewCatch(as[2].message),
          ops |-> <<"fetchPRDiff", "analyzeCode">>]
    ELSE IF ~as[3].ok
    THEN [res |-> CodeReviewCatch(as[3].message),
          ops |-> <<"fetchPRDiff", "analyzeCode", "generateResponse">>]
    ELSE IF ~as[4].ok
    THEN [res |-> CodeReviewCatch(as[4].message),
          ops |-> <<"fetchPRDiff", "analyzeCode", "generateResponse",
                    "postReviewComment">>]
    ELSE [res |-> [status |-> 200,
                   body |-> ReviewResult(Val(as[2].value),
                                         HasHighRisk(Val(Val(as[2].value).content)),
                                         ExtractSuggestions(Val(as[3].value).content))],
          ops |-> <<"fetchPRDiff", "analyzeCode", "generateResponse",
                    "postReviewComment">>]

\* the build-predictor handler read from top to bottom
PredictAlone(inc, as) ==
    LET deps == inc \in {Nil, Some(TRUE)}
        order == IF deps
                 THEN <<"getRecentChanges", "getBuildHistory", "analyzeDependencies",
                        "predictBuildOutcome">>
                 ELSE <<"getRecentChanges", "getBuildHistory", "predictBuildOutcome">>
    IN  IF \E k \in 1..Len(order) : ~as[k].ok
        THEN LET k == CHOOSE k \in 1..Len(order) :
                          ~as[k].ok /\ \A j \in 1..(k - 1) : as[j].ok
             IN  [res |-> BuildPredictorCatch(as[k].message), ops |-> SubSeq(order, 1, k)]
        ELSE [res |-> BuildPredictorResult(
                          Val(as[Len(order)].value),
                          [dependencyAnalysis |-> IF deps THEN as[3].value ELSE Nil]),
              ops |-> order]

Alone(inv) ==
    IF inv.route = "code-review" THEN ReviewAlone(inv.body, inv.answers)
    ELSE PredictAlone(inv.requested, inv.answers)

\* a finished request answered and called as it would have on its own
AsIfAlone(i) ==
    inflight[i].pc = "done" =>
        /\ inflight[i].res = Alone(inflight[i]).res
        /\ Ops(inflight[i].calls) = Alone(inflight[i]).ops

\* C18: however the stages of the requests in flight interleave, every
\* finished request has the response and the sequence of collaborator calls it
\* would have had on its own with the same answers, and no step writes the
\* configuration.
C18_RequestsAreIsolated ==
    /\ [](\A i \in DOMAIN inflight : AsIfAlone(i))
    /\ [][nodeEnv' = nodeEnv /\ mcpToken' = mcpToken]_vars

\* request 1 has answered 'high' while request 2, whose analysis is clean, is
\* still suspended on the posting of its comment
C18_Witness ==
    /\ pc = "concurrent"
    /\ inflight[1].pc = "done"
    /\ inflight[1].res.status = 200
    /\ inflight[1].route = "code-review"
    /\ inflight[1].res.body.risk_level = "high"
    /\ inflight[2].pc = "cr_post"
    /\ ~inflight[2].hasHighRisk
    /\ Val(inflight[2].result).risk_level = "low"

-----------------------------------------------------------------------------
(* Vulnerability scanner: the structured path *)

\* the value the text of the answer is the JSON text of
ScanPayload == CHOOSE v \in JsonDocs : stringify(v) = ScanText

StructuredAnswer == ScanAnswered /\ ~Unparsable(ScanText)

PayloadHas(k) == ScanPayload.t = "object" /\ k \in DOMAIN ScanPayload.fields

\* null, 0 and the empty string
Falsy(v) ==
    \/ v.t = "null"
    \/ v.t = "number" /\ v.tenths = 0
    \/ v.t = "string" /\ v.chars = <<>>

\* C21 as stated: when the answer parses, the record returns the
\* vulnerabilities of the payload and its risk level as they are, an empty
\* list and 'low' standing in for a field the payload does not have.
C21_PayloadFieldsReturned ==
    StructuredAnswer =>
        /\ res.status = 200
        /\ res.body.vulnerabilities =
              IF PayloadHas("vulnerabilities") THEN ScanPayload.fields.vulnerabilities
              ELSE JArr(<<>>)
        /\ res.body.risk_level =
              IF PayloadHas("risk_level") THEN ScanPayload.fields.risk_level
              ELSE JStr(<<"l","o","w">>)

\* C21, amended: when the answer parses, the record returns the
\* vulnerabilities of the payload and its risk level as they are, an empty
\* list and 'low' standing in for a field that the payload does not have or
\* whose value is falsy (null, 0, the empty string); the keyword scan of the
\* text plays no part.
C21_PayloadFieldsOrDefaults ==
    StructuredAnswer =>
        /\ res.status = 200
        /\ res.body.vulnerabilities =
              IF PayloadHas("vulnerabilities") /\ ~Falsy(ScanPayload.fields.vulnerabilities)
              THEN ScanPayload.fields.vulnerabilities
              ELSE JArr(<<>>)
        /\ res.body.risk_level =
              IF PayloadHas("risk_level") /\ ~Falsy(ScanPayload.fields.risk_level)
              THEN ScanPayload.fields.risk_level
              ELSE JStr(<<"l","o","w">>)

\* a payload rated 'critical' with the same finding twice: both are returned,
\* and the level is 'critical', not the 'high' of the keyword scan
C21_Witness ==
    /\ StructuredAnswer
    /\ ScanText = DocScan
    /\ res.body.risk_level = JStr(<<"c","r","i","t","i","c","a","l">>)
    /\ res.body.vulnerabilities = JArr(<<JStr(<<"v">>), JStr(<<"v">>)>>)

-----------------------------------------------------------------------------
(* authMiddleware: one outcome for every request *)

\* authMiddleware has returned for the request in flight
AuthEnded == pc \notin {"idle", "auth", "catalog", "resolved", "concurrent"}

\* a stage of a pipeline has run: a handler is past its start
StageRan == pc \notin {"idle", "auth", "handler", "catalog", "resolved", "concurrent"}
              /\ ~(pc = "done" /\ nextCalls = 0)

HandlerInvokedOnce == nextCalls = 1

\* the only response of the request is a 401 of authMiddleware
DeniedOnce ==
    /\ pc = "done"
    /\ responses = 1
    /\ res \in {MissingCredential, EmptyCredential, InvalidCredential}
    /\ res.status = 401
    /\ CollabCalls = <<>>

\* C22: when authMiddleware has returned, either the handler was invoked
\* exactly once and authMiddleware sent nothing, or the handler was not
\* invoked and exactly one 401 was sent; req.user is set exactly in the first
\* case, and no pipeline stage runs in the second.
C22_AcceptXorDeny ==
    AuthEnded =>
        /\ nextCalls \in {0, 1}
        /\ nextCalls = 1 => (pc = "handler" => responses = 0 /\ res = NoRes)
        /\ nextCalls = 0 => DeniedOnce
        /\ user # Nil <=> HandlerInvokedOnce
        /\ StageRan => HandlerInvokedOnce /\ user # Nil

\* a bearer credential that fails verification and is not the shared secret
C22_Witness ==
    /\ AuthEnded
    /\ nextCalls = 0
    /\ DeniedOnce
    /\ res = InvalidCredential
    /\ user = Nil
    /\ VerifyFailed

-----------------------------------------------------------------------------
(* One response for every request *)

\* the response has been sent exactly when the request has ended, and a
\* request that has ended has no call in flight
OneResponse ==
    /\ responses \in {0, 1}
    /\ pc = "done" <=> responses = 1
    /\ pc = "done" => \A i \in 1..Len(calls) : calls[i].outcome # "pending"

\* C23: a request gets exactly one response, on every path of every handler;
\* once the response is sent no further call is started; and, every awaited
\* call settling, a request handed to a handler is answered in the end.
C23_ExactlyOneResponse ==
    /\ []OneResponse
    /\ [][responses = 1 => Len(calls') <= Len(calls)]_vars
    /\ (pc = "handler") ~> (pc = "done" /\ responses = 1)

\* docker-handler has answered after both of its calls
C23_Witness ==
    /\ pc = "done"
    /\ route = "docker-handler"
    /\ responses = 1
    /\ res.status = 200
    /\ Ops(CollabCalls) = <<"buildDockerImage", "generateK8sManifests">>

-----------------------------------------------------------------------------
(* What a failed test-writer request has already created *)

TestWriterFailed ==
    /\ pc = "done"
    /\ route = "test-writer"
    /\ nextCalls = 1
    /\ res.status = 500

\* the test files the request has created: its createTestFile calls that
\* returned
CreatedFiles ==
    SelectSeq(CallsOf("createTestFile"), LAMBDA c : c.outcome = "ok")

\* C24: when test-writer answers with its error response, which reports
\* tests_generated: 0, the request has created no test file.
C24_ErrorMeansNothingCreated ==
    TestWriterFailed =>
        /\ res.body.tests_generated = 0
        /\ CreatedFiles = <<>>

-----------------------------------------------------------------------------
(* The build predictor's own fields *)

\* what analyzeDependencies returned, or null when it was not called
DependencyResult ==
    IF CallsOf("analyzeDependencies") = <<>>
    THEN Nil
    ELSE CallsOf("analyzeDependencies")[1].value

\* C25: in a success record of the build predictor commit_sha, branch,
\* model_used, provider, dependency_analysis and timestamp are the request's
\* and the collaborators' values, whatever keys the parsed prediction has.
C25_OwnFieldsNotOverridden ==
    PredictionAnswered =>
        /\ res.status = 200
        /\ OwnKeys \subseteq DOMAIN res.body
        /\ res.body.commit_sha = "commit_sha"
        /\ res.body.branch = RequestBranch
        /\ res.body.model_used = Val(LastCall.value).model
        /\ res.body.provider = Val(LastCall.value).provider
        /\ res.body.dependency_analysis = DependencyResult
        /\ res.body.timestamp = "now"

\* the prediction has a branch key of its own, and the record has the request's
C25_Witness ==
    /\ PredictionAnswered
    /\ PredictionText = DocOverride
    /\ Get(Val(JSONparse(PredictionText)), "branch") = Some(StrX)
    /\ res.body.branch = RequestBranch
    /\ res.body.dependency_analysis = Some("dependencies")

====
